---- MODULE Spec2Model ----
(***************************************************************************)
(* SyncScript: the v2 server (Express + Prisma + Redis + Socket.IO,        *)
(* src/debug_repro.js lines 75-1155) and the in-memory MVP server          *)
(* (src/backend/server.js), as state machines.                             *)
(*                                                                         *)
(* A v2 request is a little process: it is received (authenticateToken and *)
(* the synchronous code up to the first await run in that step), and then  *)
(* takes one step per awaited database, cache or transaction call; other   *)
(* requests may run between two steps, as on the Node event loop.          *)
(*                                                                         *)
(* Strings the code takes apart (trim, split, startsWith) are sequences of *)
(* chunks; strings it only tests for truthiness and equality are TLA+      *)
(* strings, "" standing for both undefined and the empty string.           *)
(***************************************************************************)
EXTENDS Integers, Sequences, FiniteSets, Bags, TLC

\* ------------------------------------------------------------------ bounds
\* Ids the vault and source sequences hand out in one behaviour.
MaxVaults == 1
MaxSources == 1
\* Number of request slots: requests of the v2 server in flight at once.
MaxInFlight == 2
\* Number of Socket.IO connections the server holds in one behaviour.
MaxSockets == 2
MaxTicks == 2
MaxOutbox == 3
\* the vaults of the client's user in the runs that switch between vaults
FeedVaults == 2
\* the ids each counter of the in-memory server hands out
MvpIds == 2

\* ------------------------------------------------------------ JS strings
Undefined == <<"undefined">>
Null == <<"null">>
SP == " "

\* !s for a string-valued field: undefined, null and "" are falsy
Falsy(s) == s = Undefined \/ s = Null \/ s = <<>>

RECURSIVE TrimStart(_)
TrimStart(s) == IF s # <<>> /\ Head(s) = SP THEN TrimStart(Tail(s)) ELSE s

RECURSIVE TrimEnd(_)
TrimEnd(s) ==
    IF s # <<>> /\ s[Len(s)] = SP THEN TrimEnd(SubSeq(s, 1, Len(s) - 1)) ELSE s

\* a trim that removes nothing, for comparison
Trim_NoOp(s) == s
\* String.prototype.trim
Trim(s) == TrimEnd(TrimStart(s))

\* !name || name.trim().length === 0
Blank(s) == Falsy(s) \/ Len(Trim(s)) = 0

\* s.startsWith(p) for a one-chunk prefix
StartsWith(s, p) == s # <<>> /\ Head(s) = p

\* JSON.stringify / JSON.parse of the cached lists
Stringify(v) == [json |-> v]
Parse(t) == t.json

\* ------------------------------------------------------------------ routes
GET_ROOT == "GET /"
GET_VAULTS == "GET /vaults"
POST_VAULTS == "POST /vaults"
GET_SOURCES == "GET /vaults/:id/sources"
POST_SOURCES == "POST /vaults/:id/sources"
POST_MEMBERS == "POST /vaults/:id/members"
GET_AUDIT == "GET /vaults/:id/audit"
GET_DOWNLOAD == "GET /sources/:id/download"
POST_REGISTER == "POST /auth/register"

\* the routes declared with authenticateToken
Protected ==
    {GET_VAULTS, POST_VAULTS, GET_SOURCES, POST_SOURCES, POST_MEMBERS, GET_AUDIT,
     GET_DOWNLOAD}

\* the routes declared with requireVaultRole, and the list each passes to it
VaultScoped == {GET_SOURCES, POST_SOURCES, POST_MEMBERS, GET_AUDIT}

\* the lists with VIEWER also allowed to add sources, for comparison
AllowedRoles_ViewerWrites(route) ==
    CASE route = GET_SOURCES -> {"OWNER", "CONTRIBUTOR", "VIEWER"}
      [] route = POST_SOURCES -> {"OWNER", "CONTRIBUTOR", "VIEWER"}
      [] route = POST_MEMBERS -> {"OWNER"}
      [] route = GET_AUDIT -> {"OWNER"}
      [] OTHER -> {}
AllowedRoles(route) ==
    CASE route = GET_SOURCES -> {"OWNER", "CONTRIBUTOR", "VIEWER"}
      [] route = POST_SOURCES -> {"OWNER", "CONTRIBUTOR"}
      [] route = POST_MEMBERS -> {"OWNER"}
      [] route = GET_AUDIT -> {"OWNER"}
      [] OTHER -> {}

\* ------------------------------------------------------------------ tokens
\* A JWT: the user id of its payload, whether JWT_SECRET signed it, and
\* whether its 7 days have passed.  NoToken is `undefined`.
NoToken == [id |-> 0, signed |-> FALSE, expired |-> FALSE]
Jwt(u) == [id |-> u, signed |-> TRUE, expired |-> FALSE]
Stale(u) == [id |-> u, signed |-> TRUE, expired |-> TRUE]
Forged(u) == [id |-> u, signed |-> FALSE, expired |-> FALSE]

\* authHeader && authHeader.split(' ')[1]; a header is its words, <<>> is
\* no Authorization header
TokenOf(hdr) == IF Len(hdr) >= 2 THEN hdr[2] ELSE NoToken

\* a verification that looks at the signature only, for comparison
JwtVerify_IgnoreExpiry(tok) == tok.signed
\* jwt.verify(token, JWT_SECRET, ...) calls back without an error
JwtVerify(tok) == tok.signed /\ ~tok.expired

\* --------------------------------------------------------------- variables
VARIABLES
    users, vaults, vaultMembers, sources, auditLogs,  \* the Prisma tables
    vaultSeq, sourceSeq,       \* the id sequences of vaults and sources
    redisReady, cache,         \* redisClient.isReady and the Redis keys
    uploadsDir,                \* the files under uploads/
    ioEmitted,                 \* the bag of events io.to(room).emit has sent
    reqs,                      \* the requests in flight, by slot
    acked,                     \* the writes answered 201 so far
    mvpVaults, mvpSources, vaultIdCounter, sourceIdCounter,  \* MVP server
    mvpRes,                    \* the MVP server's last response
    app,                       \* the MVP client: the state of App.jsx and its fetches
    sockets,                   \* the Socket.IO connections, by socket id
    client                     \* the state of one v2 React client

dbVars == <<users, vaults, vaultMembers, sources, auditLogs, vaultSeq, sourceSeq>>
redisVars == <<redisReady, cache>>
mvpVars == <<mvpVaults, mvpSources, vaultIdCounter, sourceIdCounter, mvpRes, app>>
v2Vars == <<dbVars, redisVars, uploadsDir, ioEmitted, reqs, acked, sockets, client>>
vars == <<v2Vars, mvpVars>>

Reqs == 1..MaxInFlight

\* The users table after three registrations.
RegisteredUsers ==
    << [id |-> 1, email |-> "u1@x", name |-> "U1"],
       [id |-> 2, email |-> "u2@x", name |-> "U2"],
       [id |-> 3, email |-> "u3@x", name |-> "U3"] >>
UserIds == {RegisteredUsers[i].id : i \in DOMAIN RegisteredUsers}

\* ------------------------------------------------------------- responses
NoBody == [kind |-> "none", keys |-> {}, success |-> FALSE, error |-> "", data |-> <<>>]
\* res.status(s).json({ success: false, error })
Fail(msg) ==
    [kind |-> "json", keys |-> {"success", "error"}, success |-> FALSE,
     error |-> msg, data |-> <<>>]
\* res.status(s).json({ error })
FailBare(msg) ==
    [kind |-> "json", keys |-> {"error"}, success |-> FALSE, error |-> msg,
     data |-> <<>>]
\* res.json({ success: true, data })
Ok(data) ==
    [kind |-> "json", keys |-> {"success", "data"}, success |-> TRUE,
     error |-> "", data |-> data]
\* res.json({ success: true, data, _cached: true })
OkCached(data) ==
    [kind |-> "json", keys |-> {"success", "data", "_cached"}, success |-> TRUE,
     error |-> "", data |-> data]
\* res.status(201).json({ success: true, message })
OkMessage ==
    [kind |-> "json", keys |-> {"success", "message"}, success |-> TRUE,
     error |-> "", data |-> <<>>]
\* res.download(filePath, title) and res.redirect(url)
SentFile == [NoBody EXCEPT !.kind = "file"]
Redirect == [NoBody EXCEPT !.kind = "redirect"]

\* ---------------------------------------------------------------- requests
\* A slot: what the client sent, the handler's locals, the response, and
\* bookkeeping about the run (fields from `passed` on) that no code reads.
Idle ==
    [route |-> "", hdr |-> <<>>, id |-> 0,
     name |-> Undefined, title |-> Undefined, type |-> "", content |-> Undefined,
     url |-> Undefined, file |-> "", email |-> "", role |-> "",
     password |-> 0,            \* the password's length, 0 for none
     pc |-> "idle", user |-> 0, rows |-> <<>>, userToAdd |-> 0, vault |-> 0,
     src |-> [status |-> 0, error |-> "", type |-> "", content |-> <<>>,
              mimeType |-> "null", size |-> 0],
     made |-> 0, status |-> 0, body |-> NoBody,
     passed |-> FALSE, ran |-> FALSE, db |-> FALSE, cacheFault |-> FALSE,
     dbFault |-> FALSE, mustSee |-> {}]

\* what a client may put in a request
Input(route, hdr, id) == [Idle EXCEPT !.route = route, !.hdr = hdr, !.id = id]

\* ------------------------------------------------------------- Socket.IO
Sockets == 1..MaxSockets

\* `user_${userId}` and `vault_${vaultId}`
UserRoom(u) == [ns |-> "user", id |-> u]
VaultRoom(v) == [ns |-> "vault", id |-> v]

\* A connection: whether it is open, the rooms the server has put it in, the
\* messages the client has emitted that the server has not handled yet and
\* the events sent to it that the client has not handled yet; `user` (who
\* opened it) and `got` (every event ever sent to it) are bookkeeping.
NoSocket == [open |-> FALSE, user |-> 0, rooms |-> {}, outbox |-> <<>>,
             inbox |-> <<>>, got |-> {}]

\* io.to(room).emit(event, arg): to every open socket in the room
Deliver(ev) ==
    [s \in Sockets |->
        IF sockets[s].open /\ ev.room \in sockets[s].rooms
        THEN [sockets[s] EXCEPT !.inbox = Append(@, ev), !.got = @ \cup {ev}]
        ELSE sockets[s]]

\* an emit that sends the event twice, for comparison
Emit_Twice(ev) ==
    /\ ioEmitted' = ioEmitted (+) SetToBag({ev}) (+) SetToBag({ev})
    /\ sockets' = Deliver(ev)
Emit(ev) ==
    /\ ioEmitted' = ioEmitted (+) SetToBag({ev})
    /\ sockets' = Deliver(ev)

\* ------------------------------------------------------------ React client
\* useState initial values; 0 stands for null
LoggedOut ==
    [isAuthenticated |-> FALSE, user |-> 0, token |-> NoToken,
     vaults |-> <<>>, selectedVault |-> 0, selectedVaultRef |-> 0,
     sources |-> <<>>, socket |-> 0, isConnected |-> FALSE,
     stored |-> [token |-> NoToken, user |-> 0],
     poll |-> [on |-> FALSE, vault |-> 0],
     joined |-> 0, calls |-> {}, mounted |-> FALSE,
     ticks |-> 0]     \* the interval's firings so far, modulo MaxTicks + 1

Init ==
    /\ sockets = [s \in Sockets |-> NoSocket]
    /\ client = LoggedOut
    /\ users = RegisteredUsers
    /\ vaults = <<>>
    /\ vaultMembers = <<>>
    /\ sources = <<>>
    /\ auditLogs = <<>>
    /\ vaultSeq = 0
    /\ sourceSeq = 0
    /\ redisReady = FALSE
    /\ cache = {}
    /\ uploadsDir = {}
    /\ ioEmitted = EmptyBag
    /\ reqs = [r \in Reqs |-> Idle]
    /\ acked = {}
    /\ mvpVaults = <<>>
    /\ mvpSources = <<>>
    /\ vaultIdCounter = 1
    /\ sourceIdCounter = 1
    /\ mvpRes = [req |-> [route |-> ""], status |-> 0, body |-> NoBody]
    /\ app = [mounted |-> FALSE, vaults |-> <<>>, selectedVault |-> 0, sources |-> <<>>,
              calls |-> {}]

\* ---------------------------------------------------------------- database

\* rows of a table that satisfy a `where`, in table order
Select(table, Where(_)) == SelectSeq(table, Where)

RECURSIVE Reverse(_)
Reverse(s) == IF s = <<>> THEN <<>> ELSE Reverse(Tail(s)) \o <<Head(s)>>

\* prisma.vaultMember.findFirst({ where: { vaultId, userId } }): the rows found,
\* <<>> when findFirst returns null
MembersOf(v, u) ==
    LET W(m) == m.vaultId = v /\ m.userId = u IN Select(vaultMembers, W)
\* a lookup whose `where` leaves out the vault, for comparison
FindFirstRole_AnyVault(v, u) ==
    LET W(m) == m.userId = u
        found == Select(vaultMembers, W)
    IN IF found = <<>> THEN "" ELSE found[1].role
\* the role of the row findFirst returns, "" for null
FindFirstRole(v, u) ==
    IF MembersOf(v, u) = <<>> THEN "" ELSE MembersOf(v, u)[1].role

\* prisma.user.findUnique({ where: { email } }): the id found, 0 for null
FindUserByEmail(email) ==
    LET W(x) == x.email = email
        found == Select(users, W)
    IN IF found = <<>> THEN 0 ELSE found[1].id

UserName(u) ==
    LET W(x) == x.id = u
        found == Select(users, W)
    IN IF found = <<>> THEN "" ELSE found[1].name

\* prisma.vault.findUnique({ where: { id } }): the row in a sequence, <<>> for null
FindVault(v) == LET W(x) == x.id = v IN Select(vaults, W)
\* (FindSource_Any, for comparison: a lookup that ignores the id.)
FindSource_Any(s) == sources
\* prisma.source.findUnique({ where: { id } })
FindSource(s) == LET W(x) == x.id = s IN Select(sources, W)

\* (TxKeeps_NoRollback, for comparison: the steps before the failing one stay.)
\* A step of prisma.$transaction that throws rolls the earlier steps back:
\* the writes of a transaction are kept only when no step fails (failAt = 0).
TxKeeps_NoRollback(step, failAt) == failAt = 0 \/ step < failAt
\* writes that each stand alone, only the failing one missing, for comparison
TxKeeps_EachAlone(step, failAt) == failAt = 0 \/ step # failAt
TxKeeps(step, failAt) == failAt = 0

\* vaultMembers.map(membership => ({ id, name, role })) of GET /vaults
VaultList(u) ==
    LET W(m) == m.userId = u
        mine == Select(vaultMembers, W)
    IN [i \in DOMAIN mine |->
          [id |-> mine[i].vaultId,
           name |-> FindVault(mine[i].vaultId)[1].name,
           role |-> mine[i].role]]

\* what the API returns of a source row
Formatted(s) ==
    [id |-> s.id, vaultId |-> s.vaultId, type |-> s.type, title |-> s.title,
     content |-> IF Falsy(s.content) THEN s.url ELSE s.content,
     mimeType |-> s.mimeType, size |-> s.size, addedBy |-> UserName(s.addedBy),
     url |-> s.url]

\* findMany({ where: { vaultId }, orderBy: { addedAt: 'desc' } }), formatted
SourceList(v) ==
    LET W(x) == x.vaultId = v
        found == Reverse(Select(sources, W))
    IN [i \in DOMAIN found |-> Formatted(found[i])]

\* findMany({ where: { vaultId }, orderBy: { createdAt: 'desc' }, take: 100 })
AuditList(v) ==
    LET W(x) == x.vaultId = v
        found == Reverse(Select(auditLogs, W))
    IN [i \in DOMAIN found |->
          [action |-> found[i].action, user |-> UserName(found[i].userId),
           resourceType |-> found[i].resourceType,
           resourceId |-> found[i].resourceId]]

\* ------------------------------------------------------------------- Redis
\* one key for every user's list, for comparison
VaultsKey_Shared(u) == [ns |-> "vaults:user", id |-> 0]
\* `vaults:user:${userId}`
VaultsKey(u) == [ns |-> "vaults:user", id |-> u]
\* `vault:${vaultId}:sources`
SourcesKey(v) == [ns |-> "vault:sources", id |-> v]

\* redisClient.get(key): the value in a set, {} for null
RedisGet(k) == {e.val : e \in {x \in cache : x.key = k}}
\* the keys after redisClient.set(key, val, { EX }) and redisClient.del(key)
RedisSet(k, val) == {e \in cache : e.key # k} \cup {[key |-> k, val |-> val]}
RedisDel(k) == {e \in cache : e.key # k}

\* (CacheErrorIsFatal_Uncaught, for comparison: without the inner try/catch
\* the error reaches the handler's catch.)
\* try { await redisClient... } catch (cacheError) { console.error(...) }:
\* an error of a cache call is logged and the handler goes on
CacheErrorIsFatal_Uncaught == TRUE
CacheErrorIsFatal == FALSE

\* --------------------------------------------------------------- responding
Done(q, status, body) == [q EXCEPT !.pc = "done", !.status = status, !.body = body]
Goto(q, pc) == [q EXCEPT !.pc = pc]

\* a step of request r that leaves everything but the slot alone
Only(r, q) ==
    /\ reqs' = [reqs EXCEPT ![r] = q]
    /\ UNCHANGED <<dbVars, redisVars, uploadsDir, ioEmitted, acked, mvpVars, sockets, client>>

\* the v1 body check, title and url only, for comparison
ResolveSource_UrlOnly(q) ==
    LET out(status, msg, c) == [status |-> status, error |-> msg, type |-> "url",
                                content |-> c, mimeType |-> "null", size |-> 0]
    IN IF Blank(q.title) THEN out(400, "Source title is required", <<>>)
       ELSE IF Falsy(q.url) THEN out(400, "Source URL is required", <<>>)
       ELSE out(0, "", q.url)

\* what POST /vaults/:id/sources makes of type, content, url and the file:
\* status 0 and the source to create, or the 400 it answers
ResolveSource(q) ==
    LET sourceType == IF q.type = "" THEN "url" ELSE q.type
        reject(msg) == [status |-> 400, error |-> msg, type |-> sourceType,
                        content |-> <<>>, mimeType |-> "null", size |-> 0]
        accept(c, mime, size) == [status |-> 0, error |-> "", type |-> sourceType,
                                  content |-> c, mimeType |-> mime, size |-> size]
    IN IF Blank(q.title) THEN reject("Source title is required")
       ELSE IF sourceType \in {"file", "image"}
            THEN IF q.file = "" THEN reject("File is required")
                 ELSE accept(<<"/", "uploads/", Cardinality(uploadsDir) + 1>>,
                             "image/jpeg", 15)
       ELSE IF sourceType \in {"url", "media"}
            THEN IF Falsy(q.content)
                 THEN IF Falsy(q.url) THEN reject("URL is required")
                      ELSE accept(q.url, "null", 0)
                 ELSE accept(q.content, "null", 0)
       ELSE IF sourceType = "note"
            THEN IF Falsy(q.content) THEN reject("Note content is required")
                 ELSE accept(q.content, "null", 0)
       ELSE reject("Invalid source type")

\* the synchronous code a request runs once authenticateToken has let it in
Enter(q) ==
    CASE q.route = GET_ROOT -> Done(q, 200, [NoBody EXCEPT !.kind = "json"])
      [] q.route = GET_VAULTS -> Goto([q EXCEPT !.ran = TRUE], "gv_cache")
      [] q.route = POST_VAULTS ->
            IF Blank(q.name)
            THEN Done([q EXCEPT !.ran = TRUE], 400, Fail("Vault name is required"))
            ELSE Goto([q EXCEPT !.ran = TRUE], "pv_tx")
      [] q.route \in VaultScoped -> Goto(q, "rbac")
      [] q.route = GET_DOWNLOAD -> Goto([q EXCEPT !.ran = TRUE], "dl_source")
      [] q.route = POST_REGISTER ->
            IF q.email = "" \/ q.password = 0 \/ Falsy(q.name)
            THEN Done([q EXCEPT !.ran = TRUE], 400,
                      Fail("Email, password, and name are required"))
            ELSE IF q.password < 6
            THEN Done([q EXCEPT !.ran = TRUE], 400,
                      Fail("Password must be at least 6 characters"))
            ELSE Goto([q EXCEPT !.ran = TRUE], "rg_find")

\* the 201s a request must see: those answered before it is received
MustSee(q, u) ==
    {a \in acked :
        \/ q.route = GET_SOURCES /\ a.kind = "source" /\ a.vaultId = q.id
        \/ q.route = GET_VAULTS /\ a.kind = "vault" /\ a.userId = u}

\* the requests in flight that will draw an id from a sequence
Drawing(route) == Cardinality({r \in Reqs : reqs[r].route = route /\ reqs[r].pc # "done"})
\* the model receives a creating request only while its sequence has ids left
Room(q) ==
    /\ q.route = POST_VAULTS /\ ~Blank(q.name) =>
          vaultSeq + Drawing(POST_VAULTS) < MaxVaults
    /\ q.route = POST_SOURCES => sourceSeq + Drawing(POST_SOURCES) < MaxSources

\* A request arrives: authenticateToken, then the route up to its first await.
Received(q) ==
    LET tok == TokenOf(q.hdr) IN
    IF q.route \in Protected /\ tok = NoToken
    THEN Done(q, 401, Fail("Authentication required"))
    ELSE IF q.route \in Protected /\ ~JwtVerify(tok)
    THEN Done(q, 403, Fail("Invalid or expired token"))
    ELSE LET u == IF q.route \in Protected THEN tok.id ELSE 0
         IN Enter([q EXCEPT !.user = u, !.mustSee = MustSee(q, u)])

Receive(r, q) ==
    /\ reqs[r].pc \in {"idle", "done"}
    /\ reqs' = [reqs EXCEPT ![r] = Received(q)]
    /\ UNCHANGED <<dbVars, redisVars, uploadsDir, ioEmitted, acked, mvpVars, sockets, client>>

\* requireVaultRole(allowedRoles), and for the request it lets through the
\* rest of the route up to its first await (multer and the validation of
\* POST /vaults/:id/sources, the validation of POST /vaults/:id/members)
RequireVaultRole(r, dbErr, fsErr) ==
    LET q == reqs[r]
        role == FindFirstRole(q.id, q.user)
        in == [q EXCEPT !.db = TRUE, !.passed = TRUE]
        body == [in EXCEPT !.ran = TRUE]
        res == ResolveSource(q)
    IN
    /\ q.pc = "rbac"
    /\ IF dbErr
       THEN Only(r, Done([q EXCEPT !.db = TRUE, !.dbFault = TRUE], 500,
                         Fail("Failed to verify permissions")))
       ELSE IF role = ""
       THEN Only(r, Done([q EXCEPT !.db = TRUE], 403,
                         Fail("You do not have access to this vault")))
       ELSE IF role \notin AllowedRoles(q.route)
       THEN Only(r, Done([q EXCEPT !.db = TRUE], 403,
                         Fail("This action requires one of these roles")))
       ELSE CASE q.route = GET_SOURCES -> Only(r, Goto(body, "gs_cache"))
              [] q.route = GET_AUDIT -> Only(r, Goto(body, "ga_find"))
              [] q.route = POST_MEMBERS ->
                    IF q.email = "" \/ q.role = ""
                    THEN Only(r, Done(body, 400, Fail("Email and role are required")))
                    ELSE IF q.role \notin {"CONTRIBUTOR", "VIEWER"}
                    THEN Only(r, Done(body, 400,
                                      Fail("Invalid role. Use CONTRIBUTOR or VIEWER")))
                    ELSE Only(r, Goto(body, "pm_user"))
              [] q.route = POST_SOURCES ->
                    IF q.file \in {"badmime", "toobig"}
                    THEN \* multer calls next(err): the global error handler
                         Only(r, Done(in, 500, Fail("multer error")))
                    ELSE IF res.status # 0
                    THEN Only(r, Done(body, res.status, Fail(res.error)))
                    ELSE IF res.type \in {"file", "image"}
                    THEN IF fsErr
                         THEN Only(r, Done(body, 500, Fail("Failed to save file locally")))
                         ELSE /\ uploadsDir' = uploadsDir \cup {res.content}
                              /\ reqs' = [reqs EXCEPT ![r] =
                                    Goto([body EXCEPT !.src = res], "ps_tx")]
                              /\ UNCHANGED <<dbVars, redisVars, ioEmitted, acked, mvpVars, sockets, client>>
                    ELSE Only(r, Goto([body EXCEPT !.src = res], "ps_tx"))

\* ------------------------------------------------------------- GET /vaults
\* if (redisClient.isReady) { cachedVaults = await redisClient.get(cacheKey) ... }
GetVaultsCache(r, cacheErr) ==
    LET q == reqs[r]
        hit == RedisGet(VaultsKey(q.user))
    IN
    /\ q.pc = "gv_cache"
    /\ IF ~redisReady
       THEN Only(r, Goto([q EXCEPT !.cacheFault = TRUE], "gv_find"))
       ELSE IF cacheErr
       THEN IF CacheErrorIsFatal
            THEN Only(r, Done([q EXCEPT !.cacheFault = TRUE], 500,
                              Fail("Failed to fetch vaults")))
            ELSE Only(r, Goto([q EXCEPT !.cacheFault = TRUE], "gv_find"))
       ELSE IF hit # {}
       THEN Only(r, Done(q, 200, OkCached(Parse(CHOOSE v \in hit : TRUE))))
       ELSE Only(r, Goto(q, "gv_find"))

\* vaultMemberships = await prisma.vaultMember.findMany(...), and the map
GetVaultsFind(r, dbErr) ==
    LET q == reqs[r] IN
    /\ q.pc = "gv_find"
    /\ IF dbErr
       THEN Only(r, Done([q EXCEPT !.db = TRUE, !.dbFault = TRUE], 500,
                         Fail("Failed to fetch vaults")))
       ELSE Only(r, Goto([q EXCEPT !.db = TRUE, !.rows = VaultList(q.user)], "gv_set"))

\* if (redisClient.isReady) { await redisClient.set(...) }  res.json(...)
GetVaultsSet(r, cacheErr) ==
    LET q == reqs[r] IN
    /\ q.pc = "gv_set"
    /\ IF redisReady /\ ~cacheErr
       THEN /\ cache' = RedisSet(VaultsKey(q.user), Stringify(q.rows))
            /\ reqs' = [reqs EXCEPT ![r] = Done(q, 200, Ok(q.rows))]
            /\ UNCHANGED <<dbVars, redisReady, uploadsDir, ioEmitted, acked,
                           mvpVars, sockets, client>>
       ELSE IF redisReady /\ CacheErrorIsFatal
       THEN Only(r, Done([q EXCEPT !.cacheFault = TRUE], 500,
                         Fail("Failed to fetch vaults")))
       ELSE Only(r, Done([q EXCEPT !.cacheFault = TRUE], 200, Ok(q.rows)))

\* ------------------------------------------------------------ POST /vaults
\* prisma.$transaction: vault.create, vaultMember.create (OWNER),
\* auditLog.create (VAULT_CREATED); step failAt throws, 0 for none
CreateVaultTx(r, failAt) ==
    LET q == reqs[r]
        id == vaultSeq + 1
    IN
    /\ q.pc = "pv_tx"
    /\ vaultSeq' = id
    /\ vaults' = IF TxKeeps(1, failAt)
                 THEN Append(vaults, [id |-> id, name |-> Trim(q.name), ownerId |-> q.user])
                 ELSE vaults
    /\ vaultMembers' = IF TxKeeps(2, failAt)
                       THEN Append(vaultMembers,
                                   [vaultId |-> id, userId |-> q.user, role |-> "OWNER"])
                       ELSE vaultMembers
    /\ auditLogs' = IF TxKeeps(3, failAt)
                    THEN Append(auditLogs,
                                [vaultId |-> id, userId |-> q.user,
                                 action |-> "VAULT_CREATED", resourceType |-> "vault",
                                 resourceId |-> id])
                    ELSE auditLogs
    /\ reqs' = [reqs EXCEPT ![r] =
          IF failAt = 0
          THEN Goto([q EXCEPT !.db = TRUE, !.made = id], "pv_del")
          ELSE Done([q EXCEPT !.db = TRUE, !.dbFault = TRUE], 500,
                    Fail("Failed to create vault"))]
    /\ UNCHANGED <<users, sources, sourceSeq, redisVars, uploadsDir, ioEmitted,
                   acked, mvpVars, sockets, client>>

\* the payload of vault:created and the data of the 201
VaultData(q) == [id |-> q.made, name |-> Trim(q.name), role |-> "OWNER"]

\* if (redisClient.isReady) { await redisClient.del(...) }
\* io.to(`user_${userId}`).emit('vault:created', ...); res.status(201).json(...)
CreateVaultDel(r, cacheErr) ==
    LET q == reqs[r]
        skipped == ~redisReady \/ cacheErr
    IN
    /\ q.pc = "pv_del"
    /\ IF redisReady /\ cacheErr /\ CacheErrorIsFatal
       THEN Only(r, Done([q EXCEPT !.cacheFault = TRUE], 500,
                         Fail("Failed to create vault")))
       ELSE /\ cache' = IF skipped THEN cache ELSE RedisDel(VaultsKey(q.user))
            /\ Emit([room |-> UserRoom(q.user), event |-> "vault:created",
                     arg |-> VaultData(q)])
            /\ reqs' = [reqs EXCEPT ![r] =
                  Done([q EXCEPT !.cacheFault = skipped], 201, Ok(<<VaultData(q)>>))]
            /\ acked' = acked \cup
                  {[kind |-> "vault", vaultId |-> q.made, userId |-> q.user,
                    id |-> q.made, role |-> "OWNER"]}
            /\ UNCHANGED <<dbVars, redisReady, uploadsDir, mvpVars, client>>

\* ------------------------------------------------- GET /vaults/:id/sources
GetSourcesCache(r, cacheErr) ==
    LET q == reqs[r]
        hit == RedisGet(SourcesKey(q.id))
    IN
    /\ q.pc = "gs_cache"
    /\ IF ~redisReady
       THEN Only(r, Goto([q EXCEPT !.cacheFault = TRUE], "gs_find"))
       ELSE IF cacheErr
       THEN IF CacheErrorIsFatal
            THEN Only(r, Done([q EXCEPT !.cacheFault = TRUE], 500,
                              Fail("Failed to fetch sources")))
            ELSE Only(r, Goto([q EXCEPT !.cacheFault = TRUE], "gs_find"))
       ELSE IF hit # {}
       THEN Only(r, Done(q, 200, OkCached(Parse(CHOOSE v \in hit : TRUE))))
       ELSE Only(r, Goto(q, "gs_find"))

GetSourcesFind(r, dbErr) ==
    LET q == reqs[r] IN
    /\ q.pc = "gs_find"
    /\ IF dbErr
       THEN Only(r, Done([q EXCEPT !.db = TRUE, !.dbFault = TRUE], 500,
                         Fail("Failed to fetch sources")))
       ELSE Only(r, Goto([q EXCEPT !.db = TRUE, !.rows = SourceList(q.id)], "gs_set"))

GetSourcesSet(r, cacheErr) ==
    LET q == reqs[r] IN
    /\ q.pc = "gs_set"
    /\ IF redisReady /\ ~cacheErr
       THEN /\ cache' = RedisSet(SourcesKey(q.id), Stringify(q.rows))
            /\ reqs' = [reqs EXCEPT ![r] = Done(q, 200, Ok(q.rows))]
            /\ UNCHANGED <<dbVars, redisReady, uploadsDir, ioEmitted, acked,
                           mvpVars, sockets, client>>
       ELSE IF redisReady /\ CacheErrorIsFatal
       THEN Only(r, Done([q EXCEPT !.cacheFault = TRUE], 500,
                         Fail("Failed to fetch sources")))
       ELSE Only(r, Done([q EXCEPT !.cacheFault = TRUE], 200, Ok(q.rows)))

\* ------------------------------------------------ POST /vaults/:id/sources
\* a row whose url repeats the content whatever the type, for comparison
NewSource_UrlAlways(q, id) ==
    [id |-> id, vaultId |-> q.id, type |-> q.src.type, title |-> Trim(q.title),
     content |-> q.src.content, mimeType |-> q.src.mimeType, size |-> q.src.size,
     url |-> q.src.content, addedBy |-> q.user]
\* the row tx.source.create writes
NewSource(q, id) ==
    [id |-> id, vaultId |-> q.id, type |-> q.src.type, title |-> Trim(q.title),
     content |-> q.src.content, mimeType |-> q.src.mimeType, size |-> q.src.size,
     url |-> IF q.src.type \in {"url", "media"} THEN q.src.content ELSE Null,
     addedBy |-> q.user]

\* prisma.$transaction: source.create, auditLog.create (SOURCE_ADDED)
AddSourceTx(r, failAt) ==
    LET q == reqs[r]
        id == sourceSeq + 1
    IN
    /\ q.pc = "ps_tx"
    /\ sourceSeq' = id
    /\ sources' = IF TxKeeps(1, failAt) THEN Append(sources, NewSource(q, id))
                  ELSE sources
    /\ auditLogs' = IF TxKeeps(2, failAt)
                    THEN Append(auditLogs,
                                [vaultId |-> q.id, userId |-> q.user,
                                 action |-> "SOURCE_ADDED", resourceType |-> "source",
                                 resourceId |-> id])
                    ELSE auditLogs
    /\ reqs' = [reqs EXCEPT ![r] =
          IF failAt = 0
          THEN Goto([q EXCEPT !.db = TRUE, !.made = id], "ps_del")
          ELSE Done([q EXCEPT !.db = TRUE, !.dbFault = TRUE], 500,
                    Fail("Failed to add source: "))]
    /\ UNCHANGED <<users, vaults, vaultMembers, vaultSeq, redisVars, uploadsDir,
                   ioEmitted, acked, mvpVars, sockets, client>>

\* the payload of source:added and the data of the 201
SourceData(q) ==
    [id |-> q.made, vaultId |-> q.id, type |-> q.src.type, title |-> Trim(q.title),
     content |-> q.src.content, mimeType |-> q.src.mimeType, size |-> q.src.size,
     addedBy |-> UserName(q.user),
     url |-> IF q.src.type \in {"url", "media"} THEN q.src.content ELSE Null]

\* if (redisClient.isReady) { await redisClient.del(...) }
\* io.to(`vault_${vaultId}`).emit('source:added', ...); res.status(201).json(...)
AddSourceDel(r, cacheErr) ==
    LET q == reqs[r]
        skipped == ~redisReady \/ cacheErr
    IN
    /\ q.pc = "ps_del"
    /\ IF redisReady /\ cacheErr /\ CacheErrorIsFatal
       THEN Only(r, Done([q EXCEPT !.cacheFault = TRUE], 500,
                         Fail("Failed to add source: ")))
       ELSE /\ cache' = IF skipped THEN cache ELSE RedisDel(SourcesKey(q.id))
            /\ Emit([room |-> VaultRoom(q.id), event |-> "source:added",
                     arg |-> SourceData(q)])
            /\ reqs' = [reqs EXCEPT ![r] =
                  Done([q EXCEPT !.cacheFault = skipped], 201, Ok(<<SourceData(q)>>))]
            /\ acked' = acked \cup
                  {[kind |-> "source", vaultId |-> q.id, userId |-> q.user,
                    id |-> q.made, role |-> ""]}
            /\ UNCHANGED <<dbVars, redisReady, uploadsDir, mvpVars, client>>

\* ------------------------------------------------ POST /vaults/:id/members
\* userToAdd = await prisma.user.findUnique({ where: { email } })
AddMemberUser(r, dbErr) ==
    LET q == reqs[r]
        found == FindUserByEmail(q.email)
        d == [q EXCEPT !.db = TRUE]
    IN
    /\ q.pc = "pm_user"
    /\ IF dbErr
       THEN Only(r, Done([d EXCEPT !.dbFault = TRUE], 500, Fail("Failed to add member")))
       ELSE IF found = 0
       THEN Only(r, Done(d, 404, Fail("User not found")))
       ELSE Only(r, Goto([d EXCEPT !.userToAdd = found], "pm_member"))

\* existingMembership = await prisma.vaultMember.findFirst(...)
AddMemberExisting(r, dbErr) ==
    LET q == reqs[r] IN
    /\ q.pc = "pm_member"
    /\ IF dbErr
       THEN Only(r, Done([q EXCEPT !.dbFault = TRUE], 500, Fail("Failed to add member")))
       ELSE IF MembersOf(q.id, q.userToAdd) # <<>>
       THEN Only(r, Done(q, 409, Fail("User is already a member of this vault")))
       ELSE Only(r, Goto(q, "pm_vault"))

\* vault = await prisma.vault.findUnique({ where: { id: vaultId } })
AddMemberVault(r, dbErr) ==
    LET q == reqs[r]
        found == FindVault(q.id)
    IN
    /\ q.pc = "pm_vault"
    /\ IF dbErr
       THEN Only(r, Done([q EXCEPT !.dbFault = TRUE], 500, Fail("Failed to add member")))
       ELSE Only(r, Goto([q EXCEPT !.vault = IF found = <<>> THEN 0 ELSE found[1].id],
                         "pm_tx"))

\* prisma.$transaction: vaultMember.create, auditLog.create (MEMBER_ADDED).
\* vault_members is UNIQUE(vault_id, user_id): the create of a second row for
\* the pair throws.
AddMemberTx(r, failAt) ==
    LET q == reqs[r]
        clash == MembersOf(q.id, q.userToAdd) # <<>>
        fail == IF clash THEN 1 ELSE failAt
    IN
    /\ q.pc = "pm_tx"
    /\ vaultMembers' = IF TxKeeps(1, fail)
                       THEN Append(vaultMembers,
                                   [vaultId |-> q.id, userId |-> q.userToAdd,
                                    role |-> q.role])
                       ELSE vaultMembers
    /\ auditLogs' = IF TxKeeps(2, fail)
                    THEN Append(auditLogs,
                                [vaultId |-> q.id, userId |-> q.user,
                                 action |-> "MEMBER_ADDED", resourceType |-> "user",
                                 resourceId |-> q.userToAdd])
                    ELSE auditLogs
    /\ reqs' = [reqs EXCEPT ![r] =
          IF fail = 0 THEN Goto(q, "pm_del")
          ELSE Done([q EXCEPT !.dbFault = TRUE], 500, Fail("Failed to add member"))]
    /\ UNCHANGED <<users, vaults, sources, vaultSeq, sourceSeq, redisVars, uploadsDir,
                   ioEmitted, acked, mvpVars, sockets, client>>

\* if (redisClient.isReady) { await redisClient.del(`vaults:user:${userToAdd.id}`) }
\* if (userToAdd.id && vault) io.to(`user_${userToAdd.id}`).emit('notification', ...)
\* res.status(201).json(...)
AddMemberDel(r, cacheErr) ==
    LET q == reqs[r]
        skipped == ~redisReady \/ cacheErr
    IN
    /\ q.pc = "pm_del"
    /\ IF redisReady /\ cacheErr /\ CacheErrorIsFatal
       THEN Only(r, Done([q EXCEPT !.cacheFault = TRUE], 500,
                         Fail("Failed to add member")))
       ELSE /\ cache' = IF skipped THEN cache ELSE RedisDel(VaultsKey(q.userToAdd))
            /\ IF q.userToAdd # 0 /\ q.vault # 0
               THEN Emit([room |-> UserRoom(q.userToAdd), event |-> "notification",
                          arg |-> [type |-> "COLLABORATION", vaultId |-> q.id]])
               ELSE UNCHANGED <<ioEmitted, sockets>>
            /\ reqs' = [reqs EXCEPT ![r] =
                  Done([q EXCEPT !.cacheFault = skipped], 201, OkMessage)]
            /\ acked' = acked \cup
                  {[kind |-> "vault", vaultId |-> q.id, userId |-> q.userToAdd,
                    id |-> q.id, role |-> q.role]}
            /\ UNCHANGED <<dbVars, redisReady, uploadsDir, mvpVars, client>>

\* -------------------------------------------------- GET /vaults/:id/audit
GetAudit(r, dbErr) ==
    LET q == reqs[r] IN
    /\ q.pc = "ga_find"
    /\ IF dbErr
       THEN Only(r, Done([q EXCEPT !.dbFault = TRUE], 500,
                         Fail("Failed to fetch audit logs")))
       ELSE Only(r, Done(q, 200, Ok(AuditList(q.id))))

\* ------------------------------------------------ GET /sources/:id/download
\* source = await prisma.source.findUnique({ where: { id: sourceId } })
DownloadSource(r, dbErr) ==
    LET q == reqs[r]
        found == FindSource(q.id)
        d == [q EXCEPT !.db = TRUE]
    IN
    /\ q.pc = "dl_source"
    /\ IF dbErr
       THEN Only(r, Done([d EXCEPT !.dbFault = TRUE], 500,
                         FailBare("Failed to download file")))
       ELSE IF found = <<>>
       THEN Only(r, Done(d, 404, FailBare("Source not found")))
       ELSE Only(r, Goto([d EXCEPT !.rows = found], "dl_member"))

\* membership = await prisma.vaultMember.findFirst(...), the type check,
\* the redirect, fs.existsSync and res.download
DownloadSend(r, dbErr) ==
    LET q == reqs[r]
        source == q.rows[1]
    IN
    /\ q.pc = "dl_member"
    /\ IF dbErr
       THEN Only(r, Done([q EXCEPT !.dbFault = TRUE], 500,
                         FailBare("Failed to download file")))
       ELSE IF MembersOf(source.vaultId, q.user) = <<>>
       THEN Only(r, Done(q, 403, FailBare("Access denied")))
       ELSE IF source.type \notin {"file", "image"}
       THEN Only(r, Done(q, 400, FailBare("Source is not a file")))
       ELSE IF StartsWith(source.content, "http")
       THEN Only(r, Done(q, 302, Redirect))
       ELSE IF source.content \notin uploadsDir
       THEN Only(r, Done(q, 404, FailBare("File not found on server")))
       ELSE Only(r, Done(q, 200, SentFile))

\* --------------------------------------------------------- the environment
\* redisClient connects, or loses its connection
RedisUp ==
    /\ ~redisReady
    /\ redisReady' = TRUE
    /\ UNCHANGED <<cache, dbVars, uploadsDir, ioEmitted, reqs, acked, mvpVars, sockets, client>>
RedisDown ==
    /\ redisReady
    /\ redisReady' = FALSE
    /\ UNCHANGED <<cache, dbVars, uploadsDir, ioEmitted, reqs, acked, mvpVars, sockets, client>>
\* a key's EX runs out
Expire(k) ==
    /\ RedisGet(k) # {}
    /\ cache' = {e \in cache : e.key # k}
    /\ UNCHANGED <<redisReady, dbVars, uploadsDir, ioEmitted, reqs, acked,
                   mvpVars, sockets, client>>

\* a file under uploads/ disappears from the disk (the directory is local
\* development storage; fs.existsSync is the handler's guard against this)
UploadLost(f) ==
    /\ f \in uploadsDir
    /\ uploadsDir' = uploadsDir \ {f}
    /\ UNCHANGED <<redisVars, dbVars, ioEmitted, reqs, acked, mvpVars, sockets, client>>

\* ------------------------------------------------------ io.on('connection')
\* a client of user u opens connection s, the lowest id not used yet
SocketConnect(s, u) ==
    /\ ~sockets[s].open
    /\ sockets[s].user = 0
    /\ \A o \in Sockets : o < s => sockets[o].user # 0
    /\ sockets' = [sockets EXCEPT ![s] = [NoSocket EXCEPT !.open = TRUE, !.user = u]]
    /\ UNCHANGED <<dbVars, redisVars, uploadsDir, ioEmitted, reqs, acked, mvpVars, client>>

\* socket.on('join:user', userId => socket.join(`user_${userId}`))
SocketJoinUser(s, userId) ==
    /\ sockets[s].open
    /\ sockets' = [sockets EXCEPT ![s].rooms = @ \cup {UserRoom(userId)}]
    /\ UNCHANGED <<dbVars, redisVars, uploadsDir, ioEmitted, reqs, acked, mvpVars, client>>

\* socket.on('join:vault', vaultId => socket.join(`vault_${vaultId}`))
SocketJoinVault(s, vaultId) ==
    /\ sockets[s].open
    /\ sockets' = [sockets EXCEPT ![s].rooms = @ \cup {VaultRoom(vaultId)}]
    /\ UNCHANGED <<dbVars, redisVars, uploadsDir, ioEmitted, reqs, acked, mvpVars, client>>

\* socket.on('leave:vault', vaultId => socket.leave(`vault_${vaultId}`))
SocketLeaveVault(s, vaultId) ==
    /\ sockets[s].open
    /\ sockets' = [sockets EXCEPT ![s].rooms = @ \ {VaultRoom(vaultId)}]
    /\ UNCHANGED <<dbVars, redisVars, uploadsDir, ioEmitted, reqs, acked, mvpVars, client>>

\* ------------------------------------------------------ POST /auth/register
\* const existingUser = await prisma.user.findUnique({ where: { email } })
RegisterFind(r) ==
    LET q == reqs[r] IN
    /\ q.pc = "rg_find"
    /\ IF FindUserByEmail(q.email) # 0
       THEN Only(r, Done([q EXCEPT !.db = TRUE], 409,
                         Fail("User with this email already exists")))
       ELSE Only(r, Goto([q EXCEPT !.db = TRUE], "rg_hash"))

\* const hashedPassword = await bcrypt.hash(password, 10)
RegisterHash(r) ==
    /\ reqs[r].pc = "rg_hash"
    /\ Only(r, Goto(reqs[r], "rg_create"))

\* await prisma.user.create(...): the email column is unique, a second row
\* with the email is refused and the catch answers 500
RegisterCreate(r) ==
    LET q == reqs[r]
        id == Len(users) + 1
        user == [id |-> id, email |-> q.email, name |-> q.name]
    IN
    /\ q.pc = "rg_create"
    /\ IF FindUserByEmail(q.email) # 0
       THEN Only(r, Done([q EXCEPT !.dbFault = TRUE], 500, Fail("Failed to register user")))
       ELSE /\ users' = Append(users, user)
            /\ reqs' = [reqs EXCEPT ![r] = Done([q EXCEPT !.made = id], 201, Ok(<<user>>))]
            /\ UNCHANGED <<vaults, vaultMembers, sources, auditLogs, vaultSeq, sourceSeq,
                           redisVars, uploadsDir, ioEmitted, acked, mvpVars, sockets,
                           client>>

\* a message a client has emitted reaches the connection handler's listener
SocketMessage(s) ==
    LET sock == sockets[s]
        msg == Head(sock.outbox)
        rooms == CASE msg.event = "join:user" -> sock.rooms \cup {UserRoom(msg.arg)}
                   [] msg.event = "join:vault" -> sock.rooms \cup {VaultRoom(msg.arg)}
                   [] msg.event = "leave:vault" -> sock.rooms \ {VaultRoom(msg.arg)}
    IN
    /\ sock.open
    /\ sock.outbox # <<>>
    /\ sockets' = [sockets EXCEPT ![s] = [sock EXCEPT !.rooms = rooms,
                                                       !.outbox = Tail(sock.outbox)]]
    /\ UNCHANGED <<dbVars, redisVars, uploadsDir, ioEmitted, reqs, acked, mvpVars, client>>

\* ------------------------------------------------------- the React client
\* The component's state, one render at a time: a handler's setState calls,
\* then the effects whose dependencies changed, in the order of the source.

\* the slots the client's fetches wait on, and the slots a fetch may take
Held == {c.r : c \in client.calls}
FreeSlots == {r \in Reqs : reqs[r].pc \in {"idle", "done"} /\ r \notin Held}
Lowest(S) == CHOOSE x \in S : \A y \in S : x <= y

\* apiCall's request: Authorization: Bearer ${token}
ApiRequest(f, token) ==
    IF f.kind = "vaults" THEN Input(GET_VAULTS, <<"Bearer", token>>, 0)
    ELSE Input(GET_SOURCES, <<"Bearer", token>>, f.id)

\* an interval that keeps the vault it was first set up with, for comparison
Polling_FirstVault(c) ==
    LET polls == c.isAuthenticated /\ ~c.isConnected
    IN [on |-> polls,
        vault |-> IF ~polls THEN 0
                  ELSE IF client.poll.on THEN client.poll.vault ELSE c.selectedVault]
\* the polling effect on [isAuthenticated, isConnected, selectedVault]: the
\* interval it leaves set, and the selectedVault its callback reads
Polling(c) ==
    LET polls == c.isAuthenticated /\ ~c.isConnected
    IN [on |-> polls, vault |-> IF polls THEN c.selectedVault ELSE 0]

\* The render after a handler has left the state at c and called the
\* fetches of `sent`: the socket effect, the join-vault effect, the polling
\* effect and the fetch-on-auth effect.
Commit(c, sent) ==
    LET sockWas == client.isAuthenticated /\ client.user # 0
        sockNow == c.isAuthenticated /\ c.user # 0
        reSock == <<c.isAuthenticated, c.user>> # <<client.isAuthenticated, client.user>>
        \* return () => newSocket.disconnect()
        closes == reSock /\ sockWas
        \* const newSocket = io(API_BASE_URL); setSocket(newSocket)
        opens == reSock /\ sockNow
        closed == IF closes THEN [sockets EXCEPT ![client.socket] = NoSocket] ELSE sockets
        unused == {s \in Sockets : ~closed[s].open /\ closed[s].user = 0}
        s == IF opens THEN Lowest(unused) ELSE c.socket
        opened == IF opens THEN [closed EXCEPT ![s] = [NoSocket EXCEPT !.user = c.user]]
                  ELSE closed
        \* the effect on [socket, selectedVault], its cleanup first
        reJoin == opens \/ c.selectedVault # client.selectedVault
        joins == s # 0 /\ c.selectedVault # 0
        leave == IF reJoin /\ client.joined # 0 /\ ~closes
                 THEN <<[event |-> "leave:vault", arg |-> client.joined]>> ELSE <<>>
        join == IF reJoin /\ joins /\ sockNow
                THEN <<[event |-> "join:vault", arg |-> c.selectedVault]>> ELSE <<>>
        emitted == IF s # 0 /\ opened[s].user # 0
                   THEN [opened EXCEPT ![s].outbox = @ \o leave \o join] ELSE opened
        connected == IF closes THEN FALSE ELSE c.isConnected
        \* useEffect(() => { if (isAuthenticated) fetchVaults() }, [isAuthenticated])
        onAuth == IF c.isAuthenticated /\ ~client.isAuthenticated
                  THEN <<[kind |-> "vaults", id |-> 0]>> ELSE <<>>
        fetches == sent \o onAuth
        slot(i) == IF i = 1 THEN Lowest(FreeSlots)
                   ELSE Lowest(FreeSlots \ {Lowest(FreeSlots)})
        calls == {[r |-> slot(i), kind |-> fetches[i].kind] : i \in DOMAIN fetches}
    IN
    /\ Len(fetches) <= 2
    /\ Len(fetches) <= Cardinality(FreeSlots)
    /\ opens => unused # {}
    /\ s # 0 => Len(emitted[s].outbox) <= MaxOutbox
    /\ client' = [c EXCEPT !.selectedVaultRef = c.selectedVault,
                           !.socket = s,
                           !.isConnected = connected,
                           !.joined = IF reJoin THEN (IF joins THEN c.selectedVault ELSE 0)
                                      ELSE @,
                           !.poll = Polling([c EXCEPT !.isConnected = connected]),
                           !.calls = @ \cup calls]
    /\ sockets' = emitted
    /\ reqs' = [r \in Reqs |->
                  IF \E i \in DOMAIN fetches : slot(i) = r
                  THEN Received(ApiRequest(
                          fetches[CHOOSE i \in DOMAIN fetches : slot(i) = r], c.token))
                  ELSE reqs[r]]
    /\ UNCHANGED <<dbVars, redisVars, uploadsDir, ioEmitted, acked, mvpVars>>

\* the component mounts with storedToken and storedUser in localStorage
Mount(token, u) ==
    /\ ~client.mounted
    /\ LET c == [client EXCEPT !.mounted = TRUE,
                               !.stored = [token |-> token, user |-> u]]
       IN IF token # NoToken /\ u # 0
          THEN Commit([c EXCEPT !.token = token, !.user = u, !.isAuthenticated = TRUE],
                      <<>>)
          ELSE Commit(c, <<>>)

\* handleAuthSuccess(userData, authToken)
HandleAuthSuccess(u, token) ==
    /\ client.mounted
    /\ ~client.isAuthenticated
    /\ Commit([client EXCEPT !.user = u, !.token = token, !.isAuthenticated = TRUE],
              <<>>)

\* the state handleLogout leaves
LoggedOutFrom(c) ==
    [c EXCEPT !.stored = [token |-> NoToken, user |-> 0],
              !.user = 0, !.token = NoToken, !.isAuthenticated = FALSE,
              !.vaults = <<>>, !.selectedVault = 0, !.sources = <<>>]

\* handleLogout, from the logout button
HandleLogout ==
    /\ client.isAuthenticated
    /\ Commit(LoggedOutFrom(client), <<>>)

\* handleVaultSelect(vault), for a vault of the list on screen
HandleVaultSelect(v) ==
    /\ client.isAuthenticated
    /\ \E i \in DOMAIN client.vaults : client.vaults[i].id = v
    /\ Commit([client EXCEPT !.selectedVault = v], <<[kind |-> "sources", id |-> v]>>)

\* a fetch of apiCall answers, and fetchVaults or fetchSources goes on
ApiResponse(call) ==
    LET res == reqs[call.r]
        c == [client EXCEPT !.calls = @ \ {call}]
    IN
    /\ call \in client.calls
    /\ res.pc = "done"
    /\ IF res.status = 401 THEN Commit(LoggedOutFrom(c), <<>>)
       ELSE IF res.body.success = FALSE THEN Commit(c, <<>>)
       ELSE IF call.kind = "vaults" THEN Commit([c EXCEPT !.vaults = res.body.data], <<>>)
       ELSE Commit([c EXCEPT !.sources = res.body.data], <<>>)

\* the socket connects (again): the server's 'connection', the client's
\* 'connect' listener
ClientConnect ==
    LET s == client.socket IN
    /\ s # 0
    /\ sockets[s].user # 0
    /\ ~sockets[s].open
    /\ LET c == [client EXCEPT !.isConnected = TRUE]
       IN client' = [c EXCEPT !.poll = Polling(c)]
    /\ sockets' = [sockets EXCEPT ![s].open = TRUE,
                                  ![s].outbox = Append(@, [event |-> "join:user",
                                                           arg |-> sockets[s].user])]
    /\ UNCHANGED <<dbVars, redisVars, uploadsDir, ioEmitted, reqs, acked, mvpVars>>

\* the connection drops: the server forgets the socket and its rooms, what
\* was in flight either way is lost, the client's 'disconnect' listener
\* runs, and Socket.IO will reconnect
ClientDisconnect ==
    LET s == client.socket IN
    /\ s # 0
    /\ sockets[s].open
    /\ LET c == [client EXCEPT !.isConnected = FALSE]
       IN client' = [c EXCEPT !.poll = Polling(c)]
    /\ sockets' = [sockets EXCEPT ![s].open = FALSE, ![s].rooms = {},
                                  ![s].inbox = <<>>, ![s].outbox = <<>>]
    /\ UNCHANGED <<dbVars, redisVars, uploadsDir, ioEmitted, reqs, acked, mvpVars>>

\* (SourceAdded_NoDedupe, for comparison: a listener without the `exists` test.)
SourceAdded_NoDedupe(c, source) ==
    IF c.selectedVaultRef # 0 /\ source.vaultId = c.selectedVaultRef
    THEN [c EXCEPT !.sources = Append(@, source)] ELSE c
\* newSocket.on('source:added'): the source joins the list when a vault is
\* selected, the source is in it, and no entry of the list has its id
SourceAdded(c, source) ==
    LET exists == \E i \in DOMAIN c.sources : c.sources[i].id = source.id IN
    IF c.selectedVaultRef # 0 /\ source.vaultId = c.selectedVaultRef /\ ~exists
    THEN [c EXCEPT !.sources = Append(@, source)] ELSE c

\* an event the server emitted reaches the client's listener
ClientEvent ==
    LET s == client.socket
        ev == Head(sockets[s].inbox)
        c == client
    IN
    /\ s # 0
    /\ sockets[s].open
    /\ sockets[s].inbox # <<>>
    /\ LET next ==
              CASE ev.event = "vault:created" ->
                      [c EXCEPT !.vaults = Append(@, ev.arg)]
                [] ev.event = "source:added" -> SourceAdded(c, ev.arg)
                [] ev.event = "notification" -> c
           sent == IF ev.event = "notification" /\ ev.arg.type = "COLLABORATION"
                   THEN <<[kind |-> "vaults", id |-> 0]>> ELSE <<>>
           popped == [sockets EXCEPT ![s].inbox = Tail(@)]
       IN /\ Len(sent) <= Cardinality(FreeSlots)
          /\ client' = [next EXCEPT !.calls = @ \cup
                            {[r |-> Lowest(FreeSlots), kind |-> sent[i].kind] :
                                i \in DOMAIN sent}]
          /\ sockets' = popped
          /\ reqs' = IF sent = <<>> THEN reqs
                     ELSE [reqs EXCEPT ![Lowest(FreeSlots)] =
                              Received(ApiRequest(sent[1], c.token))]
    /\ UNCHANGED <<dbVars, redisVars, uploadsDir, ioEmitted, acked, mvpVars>>

\* the 30 s interval of the polling effect fires
PollTick ==
    /\ client.poll.on
    /\ Commit([client EXCEPT !.ticks = (@ + 1) % (MaxTicks + 1)],
              <<[kind |-> "vaults", id |-> 0]>>
              \o IF client.poll.vault # 0
                 THEN <<[kind |-> "sources", id |-> client.poll.vault]>> ELSE <<>>)

\* ---------------------------------------------------- the in-memory server
MvpReply(req, status, body) == mvpRes' = [req |-> req, status |-> status, body |-> body]

\* app.get('/vaults')
MvpGetVaultsHandler ==
    /\ MvpReply([route |-> GET_VAULTS], 200, Ok(mvpVaults))
    /\ UNCHANGED <<mvpVaults, mvpSources, vaultIdCounter, sourceIdCounter>>

\* app.post('/vaults')
MvpPostVaultsHandler(name) ==
    LET newVault == [id |-> vaultIdCounter, name |-> Trim(name), role |-> "OWNER"]
        req == [route |-> POST_VAULTS, name |-> name]
    IN
    IF Blank(name)
    THEN /\ MvpReply(req, 400, Fail("Vault name is required"))
         /\ UNCHANGED <<mvpVaults, mvpSources, vaultIdCounter, sourceIdCounter>>
    ELSE /\ vaultIdCounter' = vaultIdCounter + 1
         /\ mvpVaults' = Append(mvpVaults, newVault)
         /\ MvpReply(req, 201, Ok(<<newVault>>))
         /\ UNCHANGED <<mvpSources, sourceIdCounter>>

\* (MvpVaultExists_Any, for comparison: a lookup that finds a vault for any id.)
MvpVaultExists_Any(id) == TRUE
\* vaults.find(v => v.id === vaultId)
MvpVaultExists(id) == \E i \in DOMAIN mvpVaults : mvpVaults[i].id = id

\* app.get('/vaults/:id/sources')
MvpGetSourcesHandler(id) ==
    LET W(x) == x.vaultId = id
        req == [route |-> GET_SOURCES, id |-> id]
    IN
    /\ IF ~MvpVaultExists(id)
       THEN MvpReply(req, 404, Fail("Vault not found"))
       ELSE MvpReply(req, 200, Ok(Select(mvpSources, W)))
    /\ UNCHANGED <<mvpVaults, mvpSources, vaultIdCounter, sourceIdCounter>>

\* app.post('/vaults/:id/sources')
MvpPostSourcesHandler(id, title, url) ==
    LET newSource == [id |-> sourceIdCounter, vaultId |-> id, title |-> Trim(title),
                      url |-> Trim(url)]
        req == [route |-> POST_SOURCES, id |-> id, title |-> title, url |-> url]
        reject(status, msg) ==
            /\ MvpReply(req, status, Fail(msg))
            /\ UNCHANGED <<mvpVaults, mvpSources, vaultIdCounter, sourceIdCounter>>
    IN
    IF ~MvpVaultExists(id) THEN reject(404, "Vault not found")
    ELSE IF Blank(title) THEN reject(400, "Source title is required")
    ELSE IF Blank(url) THEN reject(400, "Source URL is required")
    ELSE /\ sourceIdCounter' = sourceIdCounter + 1
         /\ mvpSources' = Append(mvpSources, newSource)
         /\ MvpReply(req, 201, Ok(<<newSource>>))
         /\ UNCHANGED <<mvpVaults, vaultIdCounter>>

\* the in-memory server answers a request; the v2 server is not involved
MvpGetVaults == MvpGetVaultsHandler /\ UNCHANGED <<v2Vars, app>>
MvpPostVaults(name) == MvpPostVaultsHandler(name) /\ UNCHANGED <<v2Vars, app>>
MvpGetSources(id) == MvpGetSourcesHandler(id) /\ UNCHANGED <<v2Vars, app>>
MvpPostSources(id, title, url) ==
    MvpPostSourcesHandler(id, title, url) /\ UNCHANGED <<v2Vars, app>>

\* ------------------------------------------------------- the MVP client
\* fetch(url) of fetchVaults and fetchSources: each call takes the lowest
\* number no call in flight has
AppFetch(a, sent) ==
    LET used == {c.n : c \in a.calls}
        free == Reqs \ used
        slot(i) == IF i = 1 THEN Lowest(free) ELSE Lowest(free \ {Lowest(free)})
    IN
    /\ Len(sent) <= Cardinality(free)
    /\ app' = [a EXCEPT !.calls = @ \cup
                  {[n |-> slot(i), kind |-> sent[i].kind, id |-> sent[i].id,
                    served |-> FALSE, body |-> NoBody] : i \in DOMAIN sent}]
    /\ UNCHANGED <<v2Vars, mvpVaults, mvpSources, vaultIdCounter, sourceIdCounter, mvpRes>>

\* useEffect(() => { fetchVaults() }, [])
AppMount ==
    /\ ~app.mounted
    /\ AppFetch([app EXCEPT !.mounted = TRUE], <<[kind |-> "vaults", id |-> 0]>>)

\* handleVaultSelect(vault), for a vault of the list on screen
AppVaultSelect(v) ==
    /\ app.mounted
    /\ \E i \in DOMAIN app.vaults : app.vaults[i].id = v
    /\ AppFetch([app EXCEPT !.selectedVault = v], <<[kind |-> "sources", id |-> v]>>)

\* the 3 s interval of the polling effect fires
AppPoll ==
    /\ app.mounted
    /\ AppFetch(app, <<[kind |-> "vaults", id |-> 0]>>
                     \o IF app.selectedVault # 0
                        THEN <<[kind |-> "sources", id |-> app.selectedVault]>> ELSE <<>>)

\* the in-memory server handles the GET of a fetch
AppServe(call) ==
    /\ call \in app.calls
    /\ ~call.served
    /\ IF call.kind = "vaults" THEN MvpGetVaultsHandler ELSE MvpGetSourcesHandler(call.id)
    /\ app' = [app EXCEPT !.calls = (@ \ {call}) \cup
                  {[call EXCEPT !.served = TRUE, !.body = mvpRes'.body]}]
    /\ UNCHANGED v2Vars

\* response.json() of a fetch resolves: if (data.success) setVaults / setSources
AppResponse(call) ==
    LET a == [app EXCEPT !.calls = @ \ {call}] IN
    /\ call \in app.calls
    /\ call.served
    /\ app' = IF ~call.body.success THEN a
              ELSE IF call.kind = "vaults" THEN [a EXCEPT !.vaults = call.body.data]
              ELSE [a EXCEPT !.sources = call.body.data]
    /\ UNCHANGED <<v2Vars, mvpVaults, mvpSources, vaultIdCounter, sourceIdCounter, mvpRes>>

\* a new request takes the lowest slot that is free
Free(r) ==
    /\ reqs[r].pc \in {"idle", "done"}
    /\ \A o \in Reqs : o < r => reqs[o].pc \notin {"idle", "done"}

\* no request is in flight
Quiet == \A r \in Reqs : reqs[r].pc \in {"idle", "done"}

Bearer(u) == <<"Bearer", Jwt(u)>>

\* =========================================================================
\* Access control, one request at a time: user 1 creates vaults, the three
\* users call every route with valid tokens, and every route is also called
\* with no header, a header without a token, an expired and a forged token.
\* The database and the file system answer without errors, Redis stays
\* disconnected.
\* =========================================================================
BadHeaders == {<<>>, <<"Bearer">>, <<"Bearer", Stale(1)>>, <<"Bearer", Forged(1)>>}

AccessInputs ==
    LET H == {Bearer(u) : u \in UserIds}
        V == {1, 2}
    IN {Input(GET_ROOT, <<>>, 0)}
       \cup {[Input(POST_VAULTS, Bearer(1), 0) EXCEPT !.name = <<"a">>]}
       \cup {Input(GET_VAULTS, h, 0) : h \in H}
       \cup {Input(GET_SOURCES, h, v) : h \in H, v \in V}
       \cup {Input(GET_AUDIT, h, v) : h \in H, v \in V}
       \cup {Input(GET_DOWNLOAD, h, v) : h \in H, v \in V}
       \cup {[Input(POST_MEMBERS, h, v) EXCEPT !.email = "u2@x", !.role = ro] :
                h \in H, v \in V, ro \in {"CONTRIBUTOR", "VIEWER"}}
       \cup {[Input(POST_SOURCES, h, 1) EXCEPT !.title = <<"t">>, !.type = "image",
                                               !.file = "ok"] : h \in H}
       \cup {[Input(POST_SOURCES, Bearer(1), v) EXCEPT !.title = <<"t">>, !.type = "image",
                                                       !.file = f] :
                v \in V, f \in {"", "badmime"}}
       \cup {[Input(route, h, 1) EXCEPT !.name = <<"a">>, !.title = <<"t">>,
                                        !.type = "image", !.file = "ok",
                                        !.email = "u2@x", !.role = "VIEWER"] :
                route \in Protected, h \in BadHeaders}

ReceiveAccess(r) == \E q \in AccessInputs : Quiet /\ Free(r) /\ Room(q) /\ Receive(r, q)

NextAccess ==
    \E r \in Reqs :
        \/ ReceiveAccess(r)
        \/ RequireVaultRole(r, FALSE, FALSE)
        \/ GetVaultsCache(r, FALSE)
        \/ GetVaultsFind(r, FALSE)
        \/ GetVaultsSet(r, FALSE)
        \/ CreateVaultTx(r, 0)
        \/ CreateVaultDel(r, FALSE)
        \/ GetSourcesCache(r, FALSE)
        \/ GetSourcesFind(r, FALSE)
        \/ GetSourcesSet(r, FALSE)
        \/ AddSourceTx(r, 0)
        \/ AddSourceDel(r, FALSE)
        \/ AddMemberUser(r, FALSE)
        \/ AddMemberExisting(r, FALSE)
        \/ AddMemberVault(r, FALSE)
        \/ AddMemberTx(r, 0)
        \/ AddMemberDel(r, FALSE)
        \/ GetAudit(r, FALSE)
        \/ DownloadSource(r, FALSE)
        \/ DownloadSend(r, FALSE)

SpecAccess == Init /\ [][NextAccess]_vars

\* =========================================================================
\* Vault creation and membership, one request at a time, on both servers:
\* POST /vaults with every kind of name, POST /vaults/:id/members with every
\* kind of role, and either transaction failing at any of its statements.
\* =========================================================================
VaultNames == {Undefined, <<>>, <<SP, SP>>, <<"a">>, <<SP, "a", SP>>}
MemberRoles == {"", "OWNER", "CONTRIBUTOR", "VIEWER", "ADMIN"}

VaultInputs ==
    {[Input(POST_VAULTS, Bearer(u), 0) EXCEPT !.name = n] : u \in {1, 2}, n \in VaultNames}
    \cup {[Input(POST_MEMBERS, Bearer(u), v) EXCEPT !.email = e, !.role = ro] :
             u \in {1, 2}, v \in {1}, e \in {"u2@x"}, ro \in MemberRoles}
    \cup {[Input(POST_MEMBERS, Bearer(1), 1) EXCEPT !.email = e, !.role = "VIEWER"] :
             e \in {"", "nobody@x"}}

ReceiveVault(r) == \E q \in VaultInputs : Quiet /\ Free(r) /\ Room(q) /\ Receive(r, q)

\* the in-memory server creates vaults while the model has ids left
MvpCreate == \E n \in VaultNames :
    /\ ~Blank(n) => vaultIdCounter <= MaxVaults
    /\ MvpPostVaults(n)

NextVault ==
    \/ \E r \in Reqs :
        \/ ReceiveVault(r)
        \/ RequireVaultRole(r, FALSE, FALSE)
        \/ \E failAt \in 0..3 : CreateVaultTx(r, failAt)
        \/ CreateVaultDel(r, FALSE)
        \/ AddMemberUser(r, FALSE)
        \/ AddMemberExisting(r, FALSE)
        \/ AddMemberVault(r, FALSE)
        \/ \E failAt \in 0..2 : AddMemberTx(r, failAt)
        \/ AddMemberDel(r, FALSE)
    \/ MvpCreate
    \/ MvpGetVaults

SpecVault == Init /\ [][NextVault]_vars

\* =========================================================================
\* The source-list cache under concurrency: user 1 creates a vault, adds
\* sources to it and reads its source list, up to MaxInFlight requests at a
\* time, while the Redis client connects and disconnects and keys expire.
\* No database or cache call throws.
\* =========================================================================
NoteSource(v) ==
    [Input(POST_SOURCES, Bearer(1), v) EXCEPT !.title = <<"t">>, !.type = "note",
                                              !.content = <<"c">>]

SourceCacheInputs ==
    {[Input(POST_VAULTS, Bearer(1), 0) EXCEPT !.name = <<"a">>],
     NoteSource(1),
     Input(GET_SOURCES, Bearer(1), 1)}

ReceiveSourceCache(r) ==
    \E q \in SourceCacheInputs : Free(r) /\ Room(q) /\ Receive(r, q)

NextSourceCache ==
    \/ \E r \in Reqs :
        \/ ReceiveSourceCache(r)
        \/ RequireVaultRole(r, FALSE, FALSE)
        \/ CreateVaultTx(r, 0)
        \/ CreateVaultDel(r, FALSE)
        \/ GetSourcesCache(r, FALSE)
        \/ GetSourcesFind(r, FALSE)
        \/ GetSourcesSet(r, FALSE)
        \/ AddSourceTx(r, 0)
        \/ AddSourceDel(r, FALSE)
    \/ RedisUp
    \/ RedisDown
    \/ \E v \in 1..MaxVaults : Expire(SourcesKey(v))

SpecSourceCache == Init /\ [][NextSourceCache]_vars

\* =========================================================================
\* The vault-list cache under concurrency: user 1 creates vaults and adds
\* user 2 to them while both read their vault lists.
\* =========================================================================
VaultCacheInputs ==
    {[Input(POST_VAULTS, Bearer(1), 0) EXCEPT !.name = <<"a">>],
     [Input(POST_MEMBERS, Bearer(1), 1) EXCEPT !.email = "u2@x", !.role = "VIEWER"],
     Input(GET_VAULTS, Bearer(1), 0),
     Input(GET_VAULTS, Bearer(2), 0)}

ReceiveVaultCache(r) ==
    \E q \in VaultCacheInputs : Free(r) /\ Room(q) /\ Receive(r, q)

NextVaultCache ==
    \/ \E r \in Reqs :
        \/ ReceiveVaultCache(r)
        \/ RequireVaultRole(r, FALSE, FALSE)
        \/ GetVaultsCache(r, FALSE)
        \/ GetVaultsFind(r, FALSE)
        \/ GetVaultsSet(r, FALSE)
        \/ CreateVaultTx(r, 0)
        \/ CreateVaultDel(r, FALSE)
        \/ AddMemberUser(r, FALSE)
        \/ AddMemberExisting(r, FALSE)
        \/ AddMemberVault(r, FALSE)
        \/ AddMemberTx(r, 0)
        \/ AddMemberDel(r, FALSE)
    \/ RedisUp
    \/ RedisDown
    \/ \E u \in {1, 2} : Expire(VaultsKey(u))

SpecVaultCache == Init /\ [][NextVaultCache]_vars

\* =========================================================================
\* Cache and database failures, one request at a time: the five cached
\* routes while Redis connects and disconnects, any cache call may throw,
\* any query may fail and either transaction may fail at its first
\* statement.
\* =========================================================================
FaultInputs ==
    {[Input(POST_VAULTS, Bearer(1), 0) EXCEPT !.name = <<"a">>],
     [Input(POST_MEMBERS, Bearer(1), 1) EXCEPT !.email = "u2@x", !.role = "VIEWER"],
     NoteSource(1),
     Input(GET_VAULTS, Bearer(1), 0),
     Input(GET_VAULTS, Bearer(2), 0),
     Input(GET_SOURCES, Bearer(2), 1)}

ReceiveFaults(r) == \E q \in FaultInputs : Quiet /\ Free(r) /\ Room(q) /\ Receive(r, q)

NextFaults ==
    \/ \E r \in Reqs :
        \/ ReceiveFaults(r)
        \/ \E dbErr \in BOOLEAN : RequireVaultRole(r, dbErr, FALSE)
        \/ \E cacheErr \in BOOLEAN : GetVaultsCache(r, cacheErr)
        \/ \E dbErr \in BOOLEAN : GetVaultsFind(r, dbErr)
        \/ \E cacheErr \in BOOLEAN : GetVaultsSet(r, cacheErr)
        \/ \E failAt \in 0..1 : CreateVaultTx(r, failAt)
        \/ \E cacheErr \in BOOLEAN : CreateVaultDel(r, cacheErr)
        \/ \E cacheErr \in BOOLEAN : GetSourcesCache(r, cacheErr)
        \/ \E dbErr \in BOOLEAN : GetSourcesFind(r, dbErr)
        \/ \E cacheErr \in BOOLEAN : GetSourcesSet(r, cacheErr)
        \/ \E failAt \in 0..1 : AddSourceTx(r, failAt)
        \/ \E cacheErr \in BOOLEAN : AddSourceDel(r, cacheErr)
        \/ \E dbErr \in BOOLEAN : AddMemberUser(r, dbErr)
        \/ \E dbErr \in BOOLEAN : AddMemberExisting(r, dbErr)
        \/ \E dbErr \in BOOLEAN : AddMemberVault(r, dbErr)
        \/ \E failAt \in 0..1 : AddMemberTx(r, failAt)
        \/ \E cacheErr \in BOOLEAN : AddMemberDel(r, cacheErr)
    \/ RedisUp
    \/ RedisDown

SpecFaults == Init /\ [][NextFaults]_vars

\* =========================================================================
\* Rooms: user 1 creates a vault, adds user 2 to it and adds a source, one
\* request at a time, while clients of users 2 and 3 open connections and
\* send join:user, join:vault and leave:vault messages with any id.
\* =========================================================================
RoomInputs ==
    {[Input(POST_VAULTS, Bearer(1), 0) EXCEPT !.name = <<"a">>],
     [Input(POST_MEMBERS, Bearer(1), 1) EXCEPT !.email = "u2@x", !.role = "VIEWER"],
     NoteSource(1)}

ReceiveRooms(r) == \E q \in RoomInputs : Quiet /\ Free(r) /\ Room(q) /\ Receive(r, q)

NextRooms ==
    \/ \E r \in Reqs :
        \/ ReceiveRooms(r)
        \/ RequireVaultRole(r, FALSE, FALSE)
        \/ CreateVaultTx(r, 0)
        \/ CreateVaultDel(r, FALSE)
        \/ AddSourceTx(r, 0)
        \/ AddSourceDel(r, FALSE)
        \/ AddMemberUser(r, FALSE)
        \/ AddMemberExisting(r, FALSE)
        \/ AddMemberVault(r, FALSE)
        \/ AddMemberTx(r, 0)
        \/ AddMemberDel(r, FALSE)
    \/ \E s \in Sockets :
        \/ \E u \in {2, 3} : SocketConnect(s, u)
        \/ \E u \in {1, 2} : SocketJoinUser(s, u)
        \/ \E v \in 1..MaxVaults : SocketJoinVault(s, v)
        \/ \E v \in 1..MaxVaults : SocketLeaveVault(s, v)

SpecRooms == Init /\ [][NextRooms]_vars

\* =========================================================================
\* Events: the three writing routes, one request at a time, with requests
\* that succeed and requests that end in each error status: no token, an
\* expired token, a blank name or title, a VIEWER adding a source, an
\* unknown email, an existing member, a failing query or transaction.
\* =========================================================================
EventInputs ==
    {[Input(POST_VAULTS, hdr, 0) EXCEPT !.name = n] :
        hdr \in {Bearer(1), <<>>, <<"Bearer", Stale(1)>>}, n \in {<<"a">>, <<>>}}
    \cup {[Input(POST_MEMBERS, Bearer(1), 1) EXCEPT !.email = e, !.role = "VIEWER"] :
             e \in {"u2@x", "nobody@x"}}
    \cup {[NoteSource(1) EXCEPT !.hdr = Bearer(u), !.title = t] :
             u \in {1, 2}, t \in {<<"t">>, <<SP>>}}

ReceiveEvents(r) == \E q \in EventInputs : Quiet /\ Free(r) /\ Room(q) /\ Receive(r, q)

NextEvents ==
    \E r \in Reqs :
        \/ ReceiveEvents(r)
        \/ \E dbErr \in BOOLEAN : RequireVaultRole(r, dbErr, FALSE)
        \/ \E failAt \in 0..3 : CreateVaultTx(r, failAt)
        \/ \E cacheErr \in BOOLEAN : CreateVaultDel(r, cacheErr)
        \/ \E failAt \in 0..2 : AddSourceTx(r, failAt)
        \/ \E cacheErr \in BOOLEAN : AddSourceDel(r, cacheErr)
        \/ \E dbErr \in BOOLEAN : AddMemberUser(r, dbErr)
        \/ \E dbErr \in BOOLEAN : AddMemberExisting(r, dbErr)
        \/ \E dbErr \in BOOLEAN : AddMemberVault(r, dbErr)
        \/ \E failAt \in 0..2 : AddMemberTx(r, failAt)
        \/ \E cacheErr \in BOOLEAN : AddMemberDel(r, cacheErr)
        \/ RedisUp
        \/ RedisDown

SpecEvents == Init /\ [][NextEvents]_vars

\* =========================================================================
\* Live updates: user 1 opens the client with a valid session, a vault is
\* created and a note added to it from elsewhere while the client connects,
\* lists its vaults, selects the vault, joins its room and fetches its
\* sources. Redis is up. The connection, once made, stays.
\* The event loops of server and client run every callback that is due.
\* =========================================================================
LiveInputs == {[Input(POST_VAULTS, Bearer(1), 0) EXCEPT !.name = <<"a">>], NoteSource(1)}

\* a request from elsewhere arrives while none other than the client's is in flight
ReceiveLive(r) ==
    \E q \in LiveInputs :
        /\ \A o \in Reqs \ Held : reqs[o].pc \in {"idle", "done"}
        /\ FreeSlots # {}
        /\ r = Lowest(FreeSlots)
        /\ Room(q)
        /\ Receive(r, q)

ServerLive(r) ==
    \/ RequireVaultRole(r, FALSE, FALSE)
    \/ GetVaultsCache(r, FALSE)
    \/ GetVaultsFind(r, FALSE)
    \/ GetVaultsSet(r, FALSE)
    \/ CreateVaultTx(r, 0)
    \/ CreateVaultDel(r, FALSE)
    \/ GetSourcesCache(r, FALSE)
    \/ GetSourcesFind(r, FALSE)
    \/ GetSourcesSet(r, FALSE)
    \/ AddSourceTx(r, 0)
    \/ AddSourceDel(r, FALSE)

NextLive ==
    \/ \E r \in Reqs : ReceiveLive(r) \/ ServerLive(r)
    \/ \E s \in Sockets : SocketMessage(s)
    \/ Mount(Jwt(1), 1)
    \/ \E v \in 1..MaxVaults : HandleVaultSelect(v)
    \/ \E call \in client.calls : ApiResponse(call)
    \/ ClientConnect
    \/ ClientEvent
    \/ PollTick

FairLive ==
    /\ \A r \in Reqs : WF_vars(ServerLive(r))
    /\ \A s \in Sockets : WF_vars(SocketMessage(s))
    /\ WF_vars(\E call \in client.calls : ApiResponse(call))
    /\ WF_vars(ClientConnect)
    /\ WF_vars(ClientEvent)
    /\ WF_vars(PollTick)

SpecLive == Init /\ [][NextLive]_vars /\ FairLive

\* =========================================================================
\* Both servers: user 1 sends each request of a sequence to the in-memory
\* server and to the v2 server, one request at a time.
\* =========================================================================
CompatInputs ==
    {Input(GET_VAULTS, Bearer(1), 0)}
    \cup {[Input(POST_VAULTS, Bearer(1), 0) EXCEPT !.name = n] :
             n \in {<<"a">>, <<SP, "b">>, <<SP>>}}
    \cup {Input(GET_SOURCES, Bearer(1), v) : v \in 1..(MaxVaults + 1)}
    \cup {[Input(POST_SOURCES, Bearer(1), v) EXCEPT !.title = t, !.url = u] :
             v \in 1..(MaxVaults + 1), t \in {<<"t">>, <<>>}, u \in {<<"u">>, <<"w", SP>>}}

\* the in-memory server's handler for the request
MvpHandle(q) ==
    CASE q.route = GET_VAULTS -> MvpGetVaultsHandler
      [] q.route = POST_VAULTS -> MvpPostVaultsHandler(q.name)
      [] q.route = GET_SOURCES -> MvpGetSourcesHandler(q.id)
      [] q.route = POST_SOURCES -> MvpPostSourcesHandler(q.id, q.title, q.url)

ReceiveCompat(r) ==
    \E q \in CompatInputs :
        /\ Quiet /\ Free(r) /\ Room(q)
        /\ reqs' = [reqs EXCEPT ![r] = Received(q)]
        /\ MvpHandle(q)
        /\ UNCHANGED <<dbVars, redisVars, uploadsDir, ioEmitted, acked, sockets, client, app>>

NextCompat ==
    \E r \in Reqs :
        \/ ReceiveCompat(r)
        \/ RequireVaultRole(r, FALSE, FALSE)
        \/ GetVaultsCache(r, FALSE)
        \/ GetVaultsFind(r, FALSE)
        \/ GetVaultsSet(r, FALSE)
        \/ CreateVaultTx(r, 0)
        \/ CreateVaultDel(r, FALSE)
        \/ GetSourcesCache(r, FALSE)
        \/ GetSourcesFind(r, FALSE)
        \/ GetSourcesSet(r, FALSE)
        \/ AddSourceTx(r, 0)
        \/ AddSourceDel(r, FALSE)
        \/ RedisUp
        \/ RedisDown

SpecCompat == Init /\ [][NextCompat]_vars

\* =========================================================================
\* Registration: requests to POST /auth/register, up to MaxInFlight at a
\* time, for an email already registered and for new ones.
\* =========================================================================
RegisterInputs ==
    {[Input(POST_REGISTER, <<>>, 0) EXCEPT !.email = e, !.password = p, !.name = n] :
        e \in {"u1@x", "n1@x", "n2@x", ""}, p \in {0, 3, 8}, n \in {<<"N">>, Undefined}}

ReceiveRegister(r) == \E q \in RegisterInputs : Free(r) /\ Receive(r, q)

NextRegister ==
    \E r \in Reqs :
        \/ ReceiveRegister(r)
        \/ RegisterFind(r)
        \/ RegisterHash(r)
        \/ RegisterCreate(r)

SpecRegister == Init /\ [][NextRegister]_vars

\* =========================================================================
\* Members: user 1 creates a vault and sends POST /vaults/1/members requests,
\* up to MaxInFlight at a time, for itself and for users 2 and 3.
\* =========================================================================
MemberInputs ==
    {[Input(POST_VAULTS, Bearer(1), 0) EXCEPT !.name = <<"a">>]}
    \cup {[Input(POST_MEMBERS, Bearer(1), 1) EXCEPT !.email = e, !.role = ro] :
             e \in {"u1@x", "u2@x", "u3@x"}, ro \in {"VIEWER", "CONTRIBUTOR"}}

ReceiveMembers(r) == \E q \in MemberInputs : Free(r) /\ Room(q) /\ Receive(r, q)

NextMembers ==
    \E r \in Reqs :
        \/ ReceiveMembers(r)
        \/ RequireVaultRole(r, FALSE, FALSE)
        \/ CreateVaultTx(r, 0)
        \/ CreateVaultDel(r, FALSE)
        \/ AddMemberUser(r, FALSE)
        \/ AddMemberExisting(r, FALSE)
        \/ AddMemberVault(r, FALSE)
        \/ AddMemberTx(r, 0)
        \/ AddMemberDel(r, FALSE)

SpecMembers == Init /\ [][NextMembers]_vars

\* =========================================================================
\* Owner: users 1 and 2 hold the tokens of their registration; one creates a
\* vault, and both post sources to it, as multipart bodies with a title, a
\* type and a content or a file, one request at a time. Redis goes up and
\* down and its calls may fail; the database and the disk do not.
\* =========================================================================
OwnerInputs ==
    {[Input(POST_VAULTS, Bearer(u), 0) EXCEPT !.name = <<"a">>] : u \in {1, 2}}
    \cup {[Input(POST_SOURCES, Bearer(u), 1) EXCEPT !.title = <<"t">>, !.type = ty,
                                                    !.content = c, !.file = f] :
             u \in {1, 2}, ty \in {"note", "file", "image"},
             c \in {<<"c">>, Undefined}, f \in {"", "ok"}}

ReceiveOwner(r) == \E q \in OwnerInputs : Quiet /\ Free(r) /\ Room(q) /\ Receive(r, q)

NextOwner ==
    \/ \E r \in Reqs :
        \/ ReceiveOwner(r)
        \/ RequireVaultRole(r, FALSE, FALSE)
        \/ CreateVaultTx(r, 0)
        \/ \E cacheErr \in BOOLEAN : CreateVaultDel(r, cacheErr)
        \/ AddSourceTx(r, 0)
        \/ \E cacheErr \in BOOLEAN : AddSourceDel(r, cacheErr)
    \/ RedisUp
    \/ RedisDown

SpecOwner == Init /\ [][NextOwner]_vars

\* =========================================================================
\* Session: the client is opened with nothing, a valid token or an expired
\* token in localStorage; the user logs in, selects vaults and logs out; the
\* socket connects, drops and reconnects; the poll interval fires. User 1
\* creates vaults from elsewhere while no other request is in flight.
\* =========================================================================
SessionInputs == {[Input(POST_VAULTS, Bearer(1), 0) EXCEPT !.name = <<"a">>]}

ReceiveSession(r) ==
    \E q \in SessionInputs :
        /\ Quiet
        /\ FreeSlots # {}
        /\ r = Lowest(FreeSlots)
        /\ Room(q)
        /\ Receive(r, q)

NextSession ==
    \/ \E r \in Reqs :
        \/ ReceiveSession(r)
        \/ RequireVaultRole(r, FALSE, FALSE)
        \/ GetVaultsCache(r, FALSE)
        \/ GetVaultsFind(r, FALSE)
        \/ GetVaultsSet(r, FALSE)
        \/ CreateVaultTx(r, 0)
        \/ CreateVaultDel(r, FALSE)
        \/ GetSourcesCache(r, FALSE)
        \/ GetSourcesFind(r, FALSE)
        \/ GetSourcesSet(r, FALSE)
    \/ \E s \in Sockets : SocketMessage(s)
    \/ \E token \in {NoToken, Jwt(1), Stale(1)} : Mount(token, IF token = NoToken THEN 0 ELSE 1)
    \/ HandleAuthSuccess(1, Jwt(1))
    \/ HandleLogout
    \/ \E v \in 1..MaxVaults : HandleVaultSelect(v)
    \/ \E call \in client.calls : ApiResponse(call)
    \/ ClientConnect
    \/ ClientDisconnect
    \/ ClientEvent
    \/ PollTick

SpecSession == Init /\ [][NextSession]_vars

\* =========================================================================
\* Polling: user 1 has created its vaults before the client is opened with
\* a valid session; afterwards the socket connects, drops and reconnects,
\* the user selects vaults, logs out and in, and the poll interval fires.
\* The client sends fetches only while it awaits none.
\* =========================================================================
ReceivePolling(r) ==
    \E q \in SessionInputs :
        /\ ~client.mounted
        /\ Quiet /\ Free(r) /\ Room(q)
        /\ Receive(r, q)

NextPolling ==
    \/ \E r \in Reqs :
        \/ ReceivePolling(r)
        \/ RequireVaultRole(r, FALSE, FALSE)
        \/ GetVaultsCache(r, FALSE)
        \/ GetVaultsFind(r, FALSE)
        \/ GetVaultsSet(r, FALSE)
        \/ CreateVaultTx(r, 0)
        \/ CreateVaultDel(r, FALSE)
        \/ GetSourcesCache(r, FALSE)
        \/ GetSourcesFind(r, FALSE)
        \/ GetSourcesSet(r, FALSE)
    \/ \E s \in Sockets : SocketMessage(s)
    \/ Quiet /\ Mount(Jwt(1), 1)
    \/ client.calls = {} /\ HandleAuthSuccess(1, Jwt(1))
    \/ HandleLogout
    \/ \E v \in 1..MaxVaults : client.calls = {} /\ HandleVaultSelect(v)
    \/ \E call \in client.calls : ApiResponse(call)
    \/ ClientConnect
    \/ ClientDisconnect
    \/ client.calls = {} /\ PollTick

SpecPolling == Init /\ [][NextPolling]_vars

\* =========================================================================
\* Source types: user 1 creates a vault and posts sources to it with every
\* combination of title, type, content, url and attachment, one request at
\* a time, with no fault of the database, the disk or Redis.
\* =========================================================================
SourceTypes == {"", "url", "media", "note", "file", "image", "pdf"}

SourceInputs ==
    {[Input(POST_VAULTS, Bearer(1), 0) EXCEPT !.name = <<"a">>]}
    \cup {[Input(POST_SOURCES, Bearer(1), 1) EXCEPT !.title = t, !.type = ty,
                                                    !.content = c, !.url = u, !.file = f] :
             t \in {Undefined, <<SP>>, <<"t", SP>>}, ty \in SourceTypes,
             c \in {Undefined, <<>>, <<"c">>}, u \in {Undefined, <<"u">>},
             f \in {"", "ok"}}

ReceiveSources(r) == \E q \in SourceInputs : Quiet /\ Free(r) /\ Room(q) /\ Receive(r, q)

NextSources ==
    \E r \in Reqs :
        \/ ReceiveSources(r)
        \/ RequireVaultRole(r, FALSE, FALSE)
        \/ CreateVaultTx(r, 0)
        \/ CreateVaultDel(r, FALSE)
        \/ AddSourceTx(r, 0)
        \/ AddSourceDel(r, FALSE)

SpecSources == Init /\ [][NextSources]_vars


\* ---------------------------------------------------------------------------
\* Downloads: user 1 owns vault 1, may add user 2 with either lower role and
\* may store a note or an uploaded image; every user asks for sources 1 and 2,
\* and an uploaded file may vanish from the disk.
DownloadInputs ==
    {[Input(POST_VAULTS, Bearer(1), 0) EXCEPT !.name = <<"a">>]}
    \cup {[Input(POST_MEMBERS, Bearer(1), 1) EXCEPT !.email = "u2@x", !.role = ro] :
             ro \in {"CONTRIBUTOR", "VIEWER"}}
    \cup {[Input(POST_SOURCES, Bearer(1), 1) EXCEPT !.title = <<"t">>, !.type = "note",
                                                     !.content = <<"c">>],
           [Input(POST_SOURCES, Bearer(1), 1) EXCEPT !.title = <<"t">>, !.type = "image",
                                                     !.file = "ok"]}
    \cup {Input(GET_DOWNLOAD, Bearer(u), s) : u \in UserIds, s \in {1, 2}}

ReceiveDownload(r) == \E q \in DownloadInputs : Quiet /\ Free(r) /\ Room(q) /\ Receive(r, q)

NextDownload ==
    \/ \E r \in Reqs :
        \/ ReceiveDownload(r)
        \/ RequireVaultRole(r, FALSE, FALSE)
        \/ CreateVaultTx(r, 0)
        \/ CreateVaultDel(r, FALSE)
        \/ AddSourceTx(r, 0)
        \/ AddSourceDel(r, FALSE)
        \/ AddMemberUser(r, FALSE)
        \/ AddMemberExisting(r, FALSE)
        \/ AddMemberVault(r, FALSE)
        \/ AddMemberTx(r, 0)
        \/ AddMemberDel(r, FALSE)
        \/ \E dbErr \in BOOLEAN : DownloadSource(r, dbErr) \/ DownloadSend(r, dbErr)
    \/ \E f \in uploadsDir : UploadLost(f)

SpecDownload == Init /\ [][NextDownload]_vars


\* =========================================================================
\* Feed: user 1 has created its vaults before the client is opened with a
\* valid session; the client connects, lists the vaults and selects among
\* them, one fetch at a time, while notes are added to them from elsewhere.
\* Redis is up and the connection, once made, stays.
\* =========================================================================
ReceiveFeed(r) ==
    \/ /\ ~client.mounted
       /\ Quiet /\ Free(r)
       /\ vaultSeq < FeedVaults
       /\ Receive(r, [Input(POST_VAULTS, Bearer(1), 0) EXCEPT !.name = <<"a">>])
    \/ \E v \in 1..FeedVaults :
          /\ client.mounted
          /\ \A o \in Reqs \ Held : reqs[o].pc \in {"idle", "done"}
          /\ FreeSlots # {}
          /\ r = Lowest(FreeSlots)
          /\ Room(NoteSource(v))
          /\ Receive(r, NoteSource(v))

NextFeed ==
    \/ \E r \in Reqs : ReceiveFeed(r) \/ ServerLive(r)
    \/ \E s \in Sockets : SocketMessage(s)
    \/ Quiet /\ Mount(Jwt(1), 1)
    \/ \E v \in 1..FeedVaults : client.calls = {} /\ HandleVaultSelect(v)
    \/ \E call \in client.calls : ApiResponse(call)
    \/ ClientConnect
    \/ ClientEvent

SpecFeed == Init /\ [][NextFeed]_vars


\* =========================================================================
\* Switch: as Feed, but the user selects a vault whenever the list shows it,
\* also while the sources of the vault selected before are still being
\* fetched.
\* =========================================================================
NextSwitch ==
    \/ \E r \in Reqs : ReceiveFeed(r) \/ ServerLive(r)
    \/ \E s \in Sockets : SocketMessage(s)
    \/ Quiet /\ Mount(Jwt(1), 1)
    \/ \E v \in 1..FeedVaults : HandleVaultSelect(v)
    \/ \E call \in client.calls : ApiResponse(call)
    \/ ClientConnect
    \/ ClientEvent

SpecSwitch == Init /\ [][NextSwitch]_vars


\* =========================================================================
\* App: the MVP client against the in-memory server. Vaults and sources are
\* posted from elsewhere; the client mounts, polls and selects vaults.
\* =========================================================================
NextApp ==
    \/ vaultIdCounter <= FeedVaults /\ MvpPostVaults(<<"a">>)
    \/ \E v \in 1..FeedVaults :
          sourceIdCounter <= MaxSources /\ MvpPostSources(v, <<"t">>, <<"u">>)
    \/ AppMount
    \/ \E v \in 1..FeedVaults : AppVaultSelect(v)
    \/ AppPoll
    \/ \E call \in app.calls : AppServe(call) \/ AppResponse(call)

SpecApp == Init /\ [][NextApp]_vars


\* =========================================================================
\* Mvp: any sequence of requests to the in-memory server, with names, titles
\* and urls that are missing, blank or padded, for vaults that exist or not.
\* =========================================================================
MvpTexts == {Undefined, <<>>, <<SP>>, <<"a", SP>>}

NextMvp ==
    \/ MvpGetVaults
    \/ \E name \in MvpTexts :
          /\ ~Blank(name) => vaultIdCounter <= MvpIds
          /\ MvpPostVaults(name)
    \/ \E id \in 0..(MvpIds + 1) : MvpGetSources(id)
    \/ \E id \in 0..(MvpIds + 1), title \in MvpTexts, url \in MvpTexts :
          /\ (MvpVaultExists(id) /\ ~Blank(title) /\ ~Blank(url)) => sourceIdCounter <= MvpIds
          /\ MvpPostSources(id, title, url)

SpecMvp == Init /\ [][NextMvp]_vars

\* ------------------------------------------------------------------- C1, C2
\* user u has a vault_members row for vault v with a role in `roles`
HasRole(v, u, roles) ==
    \E i \in DOMAIN vaultMembers :
        /\ vaultMembers[i].vaultId = v
        /\ vaultMembers[i].userId = u
        /\ vaultMembers[i].role \in roles

\* request slot r takes a step
Steps(r) == reqs'[r] # reqs[r]

\* what a request must leave alone to change no stored state
Stored == <<dbVars, cache, uploadsDir, ioEmitted, acked>>

ViewerPost(q) ==
    q.route = POST_SOURCES /\ q.user # 0 /\ HasRole(q.id, q.user, {"VIEWER"})

\* C1: a POST /vaults/:id/sources by a user whose role in the vault is VIEWER
\* is answered 403 and never reaches multer or the handler, and no step of it
\* creates a source row or an audit entry, writes a file under uploads/ or
\* emits an event.
C1_ViewerCannotAddSource ==
    /\ [](\A r \in Reqs :
            ViewerPost(reqs[r]) =>
                /\ reqs[r].pc \in {"rbac", "done"}
                /\ ~reqs[r].passed /\ ~reqs[r].ran
                /\ reqs[r].pc = "done" => reqs[r].status = 403)
    /\ [][\A r \in Reqs :
            Steps(r) /\ ViewerPost(reqs'[r]) =>
                UNCHANGED <<sources, sourceSeq, auditLogs, uploadsDir, ioEmitted>>]_vars

\* a VIEWER has posted a source with a file attached and has been answered
C1_Witness ==
    \E r \in Reqs :
        /\ ViewerPost(reqs[r])
        /\ reqs[r].file = "ok"
        /\ reqs[r].pc = "done"
        /\ reqs[r].status = 403

\* the allowed list of each vault-scoped endpoint, as the claim gives it
C2_List(route) ==
    IF route = GET_SOURCES THEN {"OWNER", "CONTRIBUTOR", "VIEWER"}
    ELSE IF route = POST_SOURCES THEN {"OWNER", "CONTRIBUTOR"}
    ELSE {"OWNER"}

C2_Allowed(q) == HasRole(q.id, q.user, C2_List(q.route))

C3_Routes ==
    {GET_VAULTS, POST_VAULTS, GET_SOURCES, POST_SOURCES, POST_MEMBERS, GET_AUDIT,
     GET_DOWNLOAD}
\* the request carries no bearer token
C3_NoToken(q) == Len(q.hdr) < 2
\* the request carries a token that fails verification
C3_BadToken(q) == Len(q.hdr) >= 2 /\ (~q.hdr[2].signed \/ q.hdr[2].expired)

NoText(name) == name = Undefined \/ \A i \in DOMAIN name : name[i] = SP
\* a v2 POST /vaults of an authenticated user with such a name
BlankPost(q) == q.route = POST_VAULTS /\ q.user # 0 /\ NoText(q.name)
\* the in-memory server has just answered a POST /vaults with such a name
MvpBlankPost == mvpRes.req.route = POST_VAULTS /\ NoText(mvpRes.req.name)

\* C4: on both servers a POST /vaults whose name is missing, empty or only
\* whitespace is answered 400 'Vault name is required' and changes nothing:
\* no vault, membership row or audit entry, no id drawn from the vault
\* counter, no vault:created event.
C4_BlankNameRejected ==
    /\ [](\A r \in Reqs :
            BlankPost(reqs[r]) =>
                /\ reqs[r].pc = "done"
                /\ reqs[r].status = 400
                /\ reqs[r].body = Fail("Vault name is required"))
    /\ [][\A r \in Reqs :
            Steps(r) /\ BlankPost(reqs'[r]) =>
                UNCHANGED <<vaults, vaultMembers, auditLogs, vaultSeq, ioEmitted>>]_vars
    /\ [](MvpBlankPost =>
            /\ mvpRes.status = 400
            /\ mvpRes.body = Fail("Vault name is required"))
    /\ [][mvpRes' # mvpRes /\ MvpBlankPost' =>
            UNCHANGED <<mvpVaults, mvpSources, vaultIdCounter, sourceIdCounter>>]_vars

\* both servers hold a vault and have then turned away a whitespace-only name
C4_Witness ==
    /\ vaults # <<>>
    /\ \E r \in Reqs : BlankPost(reqs[r]) /\ reqs[r].name = <<SP, SP>>
                       /\ reqs[r].status = 400
    /\ mvpVaults # <<>>
    /\ MvpBlankPost /\ mvpRes.req.name = Undefined /\ mvpRes.status = 400

\* ----------------------------------------------------------------------- C5
OwnerRows(v) ==
    LET W(m) == m.vaultId = v /\ m.role = "OWNER" IN Select(vaultMembers, W)
CreatedEntries(v) ==
    LET W(a) == a.vaultId = v /\ a.action = "VAULT_CREATED" IN Select(auditLogs, W)
VaultIdsStored == {vaults[i].id : i \in DOMAIN vaults}

\* C5: every vault has exactly one OWNER row, for its ownerId; the vault, the
\* OWNER row and the VAULT_CREATED entry exist together or not at all,
\* whichever statement of the transaction fails; and no step of a
\* POST /vaults/:id/members adds an OWNER row, a role other than CONTRIBUTOR
\* or VIEWER being answered 400 with nothing added.
C5_OneOwner ==
    /\ [](/\ \A i \in DOMAIN vaults :
               /\ Len(OwnerRows(vaults[i].id)) = 1
               /\ OwnerRows(vaults[i].id)[1].userId = vaults[i].ownerId
               /\ Len(CreatedEntries(vaults[i].id)) = 1
          /\ \A i \in DOMAIN vaultMembers :
               vaultMembers[i].role = "OWNER" => vaultMembers[i].vaultId \in VaultIdsStored
          /\ \A i \in DOMAIN auditLogs :
               auditLogs[i].action = "VAULT_CREATED" =>
                   auditLogs[i].vaultId \in VaultIdsStored)
    /\ [][\A r \in Reqs :
            Steps(r) /\ reqs'[r].route = POST_MEMBERS =>
                /\ \A v \in 1..(MaxVaults + 1) : OwnerRows(v)' = OwnerRows(v)
                /\ (reqs'[r].passed /\ reqs'[r].role \notin {"CONTRIBUTOR", "VIEWER"}) =>
                      /\ reqs'[r].pc = "done"
                      /\ reqs'[r].status = 400
                      /\ UNCHANGED <<vaultMembers, auditLogs>>]_vars

\* a vault's transaction has failed at its last statement, another vault has
\* been created, and its owner has asked for a second OWNER and been refused
C5_Witness ==
    /\ \E r \in Reqs :
          /\ reqs[r].route = POST_MEMBERS /\ reqs[r].role = "OWNER"
          /\ reqs[r].passed /\ reqs[r].status = 400
    /\ vaults # <<>>
    /\ Len(vaultMembers) > Len(vaults)

\* ----------------------------------------------------------------------- C6
\* C6: every response with an error status has a JSON body with
\* success: false and an error message.
C6_ErrorEnvelope ==
    \A r \in Reqs :
        reqs[r].pc = "done" /\ reqs[r].status >= 400 =>
            /\ reqs[r].body.kind = "json"
            /\ {"success", "error"} \subseteq reqs[r].body.keys
            /\ ~reqs[r].body.success
            /\ reqs[r].body.error # ""

\* ----------------------------------------------------------------------- C7
\* C7: a GET /vaults/:id/sources answered 200 lists every source of the
\* vault whose POST had returned 201 before the GET was received.
C7_SourceListFresh ==
    \A r \in Reqs :
        LET q == reqs[r] IN
        q.route = GET_SOURCES /\ q.pc = "done" /\ q.status = 200 =>
            \A a \in q.mustSee :
                \E i \in DOMAIN q.body.data : q.body.data[i].id = a.id

\* ----------------------------------------------------------------------- C8
\* C8: a GET /vaults answered 200 to user U lists, with U's role, every
\* vault whose POST /vaults had returned 201 to U, or whose
\* POST /vaults/:id/members had returned 201 for U, before the GET was
\* received.
C8_VaultListFresh ==
    \A r \in Reqs :
        LET q == reqs[r] IN
        q.route = GET_VAULTS /\ q.pc = "done" /\ q.status = 200 =>
            \A a \in q.mustSee :
                \E i \in DOMAIN q.body.data :
                    q.body.data[i].id = a.vaultId /\ q.body.data[i].role = a.role

\* ----------------------------------------------------------------------- C9
\* C9: every entry of a GET /vaults answered 200 to user U is a vault in
\* which U has a membership row, listed with the role of that row, whether
\* the list was read from the database or from the cache.
C9_OwnVaultsOnly ==
    \A r \in Reqs :
        LET q == reqs[r] IN
        q.route = GET_VAULTS /\ q.pc = "done" /\ q.status = 200 =>
            \A i \in DOMAIN q.body.data :
                HasRole(q.body.data[i].id, q.user, {q.body.data[i].role})

\* user 2 has been served a cached list with a vault in it while a list of
\* user 1 is cached too
C9_Witness ==
    /\ \E r \in Reqs :
          /\ reqs[r].route = GET_VAULTS /\ reqs[r].user = 2
          /\ reqs[r].pc = "done" /\ reqs[r].status = 200
          /\ "_cached" \in reqs[r].body.keys
          /\ reqs[r].body.data # <<>>
    /\ \E v \in RedisGet(VaultsKey(1)) : Parse(v) # <<>>

\* ---------------------------------------------------------------------- C10
C10_Routes == {GET_VAULTS, POST_VAULTS, GET_SOURCES, POST_SOURCES, POST_MEMBERS}

\* the response of a finished request is the one the database alone gives
C10_FromDatabase(q) ==
    CASE q.route = GET_VAULTS -> q.status = 200 /\ q.body = Ok(VaultList(q.user))
      [] q.route = GET_SOURCES -> q.status = 200 /\ q.body = Ok(SourceList(q.id))
      [] q.route = POST_VAULTS ->
            /\ q.status = 201
            /\ FindVault(q.made) # <<>>
            /\ HasRole(q.made, q.user, {"OWNER"})
      [] q.route = POST_SOURCES ->
            /\ q.status = 201
            /\ FindSource(q.made) # <<>>
            /\ q.body.data[1].id = q.made
      [] q.route = POST_MEMBERS ->
            /\ q.status = 201
            /\ HasRole(q.id, q.userToAdd, {q.role})

\* C10: on the five cached routes a response of status 500 is always due to
\* a database failure, and a request that found the Redis client not ready
\* or had a cache call throw is answered, unless the database failed, with
\* the status and data the database gives, its write in place.
C10_CacheOptional ==
    \A r \in Reqs :
        LET q == reqs[r] IN
        q.route \in C10_Routes /\ q.pc = "done" =>
            /\ q.status >= 500 => q.dbFault
            /\ q.cacheFault /\ ~q.dbFault => C10_FromDatabase(q)

\* with the client connected a cache call has thrown in a read of a
\* non-empty source list, which was answered from the database
C10_Witness ==
    \E r \in Reqs :
        /\ reqs[r].route = GET_SOURCES /\ reqs[r].pc = "done"
        /\ reqs[r].cacheFault /\ redisReady
        /\ reqs[r].status = 200 /\ reqs[r].body.data # <<>>

\* ---------------------------------------------------------------------- C11
\* C11: every source:added event sent to a socket is for a vault its user is
\* a member of, and every vault:created or notification event sent to a
\* socket is addressed to the room of its own user, whatever join:user,
\* join:vault and leave:vault messages the socket has sent.
C11_AuthorizedSocketsOnly ==
    \A s \in Sockets : \A ev \in sockets[s].got :
        /\ ev.event = "source:added" =>
              HasRole(ev.room.id, sockets[s].user, {"OWNER", "CONTRIBUTOR", "VIEWER"})
        /\ ev.event \in {"vault:created", "notification"} =>
              ev.room = UserRoom(sockets[s].user)

\* ---------------------------------------------------------------------- C12
\* the event a 201 of request q goes with, and the row its transaction wrote
C12_Event(q) ==
    CASE q.route = POST_VAULTS ->
            [room |-> UserRoom(q.user), event |-> "vault:created", arg |-> VaultData(q)]
      [] q.route = POST_SOURCES ->
            [room |-> VaultRoom(q.id), event |-> "source:added", arg |-> SourceData(q)]
      [] q.route = POST_MEMBERS ->
            [room |-> UserRoom(q.userToAdd), event |-> "notification",
             arg |-> [type |-> "COLLABORATION", vaultId |-> q.id]]
C12_Committed(q) ==
    CASE q.route = POST_VAULTS -> FindVault(q.made) # <<>>
      [] q.route = POST_SOURCES -> FindSource(q.made) # <<>>
      [] q.route = POST_MEMBERS -> MembersOf(q.id, q.userToAdd) # <<>>
C12_Writes == {POST_VAULTS, POST_SOURCES, POST_MEMBERS}

\* C12: the step of a request that answers 201 on a writing route emits its
\* event exactly once, to the vault's room or the user's room, with the
\* transaction already committed; no other step of any request emits
\* anything, so a request that ends in another status has emitted nothing;
\* and the events emitted so far are one per 201.
C12_OneEventPerCommit ==
    /\ [][\A r \in Reqs :
            Steps(r) =>
                IF reqs'[r].pc = "done" /\ reqs'[r].status = 201
                THEN /\ reqs[r].route \in C12_Writes
                     /\ C12_Committed(reqs'[r])
                     /\ ioEmitted' = ioEmitted (+) SetToBag({C12_Event(reqs'[r])})
                ELSE ioEmitted' = ioEmitted]_vars
    /\ [](/\ BagCardinality(ioEmitted) = Cardinality(acked)
          /\ \A ev \in BagToSet(ioEmitted) : CopiesIn(ev, ioEmitted) = 1)

\* a vault, a member and a source have been added and announced, and a later
\* request has ended in 409
C12_Witness ==
    /\ BagCardinality(ioEmitted) = 3
    /\ \E r \in Reqs : reqs[r].pc = "done" /\ reqs[r].status = 409

\* ---------------------------------------------------------------------- C13
C13_Added(id) == \E a \in acked : a.kind = "source" /\ a.id = id /\ a.vaultId = 1
C13_Selected == client.isAuthenticated /\ client.selectedVault = 1
C13_Listed(id) == \E i \in DOMAIN client.sources : client.sources[i].id = id

\* C13: once a source has been added to vault 1 and the authenticated
\* client has vault 1 selected, the source eventually is in the client's
\* sources list, unless the client stops having the vault selected.
C13_SourceReachesClient ==
    \A id \in 1..MaxSources :
        (C13_Added(id) /\ C13_Selected) ~> (C13_Listed(id) \/ ~C13_Selected)

\* ---------------------------------------------------------------------- C14
\* the fields of a vault or source that the in-memory server returns
C14_Fields(route, x) ==
    IF route \in {GET_VAULTS, POST_VAULTS}
    THEN [id |-> x.id, name |-> x.name, role |-> x.role]
    ELSE [id |-> x.id, vaultId |-> x.vaultId, title |-> x.title, url |-> x.url]
C14_Data(route, body) == [i \in DOMAIN body.data |-> C14_Fields(route, body.data[i])]

\* C14: when the v2 server has answered the request that both servers were
\* sent, its status is the in-memory server's, and on success so are the
\* fields the in-memory server returns, in the same order.
C14_SameAnswers ==
    \A r \in Reqs :
        (Quiet /\ reqs[r].pc = "done" /\ Free(r)) =>
            /\ reqs[r].status = mvpRes.status
            /\ reqs[r].status \in {200, 201} =>
                  C14_Data(reqs[r].route, reqs[r].body) = C14_Data(reqs[r].route, mvpRes.body)

\* ---------------------------------------------------------------------- C15
C15_Entries(action, vaultId, resourceId) ==
    {i \in DOMAIN auditLogs :
        /\ auditLogs[i].action = action
        /\ auditLogs[i].vaultId = vaultId
        /\ auditLogs[i].resourceId = resourceId}
\* the membership rows that POST /vaults/:id/members wrote
C15_Added ==
    {i \in DOMAIN vaultMembers :
        \A j \in DOMAIN vaults :
            vaults[j].id = vaultMembers[i].vaultId => vaults[j].ownerId # vaultMembers[i].userId}

\* C15: every vault, added member and source in the database has exactly
\* one audit entry of its action, naming the resource and, for vaults and
\* sources, the user who created it; every audit entry has its vault, member
\* or source (both or neither); a step that adds an audit entry adds one,
\* naming the user of the request that takes the step; and no step changes
\* or removes an entry already written.
C15_AuditTrail ==
    /\ [](/\ \A i \in DOMAIN vaults :
                \E e \in C15_Entries("VAULT_CREATED", vaults[i].id, vaults[i].id) :
                    /\ C15_Entries("VAULT_CREATED", vaults[i].id, vaults[i].id) = {e}
                    /\ auditLogs[e].userId = vaults[i].ownerId
          /\ \A i \in DOMAIN sources :
                \E e \in C15_Entries("SOURCE_ADDED", sources[i].vaultId, sources[i].id) :
                    /\ C15_Entries("SOURCE_ADDED", sources[i].vaultId, sources[i].id) = {e}
                    /\ auditLogs[e].userId = sources[i].addedBy
          /\ \A i \in C15_Added :
                Cardinality(C15_Entries("MEMBER_ADDED", vaultMembers[i].vaultId,
                                        vaultMembers[i].userId)) = 1
          /\ Len(auditLogs) = Len(vaults) + Len(sources) + Cardinality(C15_Added)
          /\ \A e \in DOMAIN auditLogs :
                auditLogs[e].action \in {"VAULT_CREATED", "SOURCE_ADDED", "MEMBER_ADDED"})
    /\ [][/\ Len(auditLogs') >= Len(auditLogs)
          /\ SubSeq(auditLogs', 1, Len(auditLogs)) = auditLogs
          /\ Len(auditLogs') <= Len(auditLogs) + 1
          /\ Len(auditLogs') = Len(auditLogs) + 1 =>
                \E r \in Reqs : Steps(r) /\ auditLogs'[Len(auditLogs')].userId = reqs[r].user]_vars

\* a vault and a member were written with their entries, and a source
\* transaction that failed has left neither a source nor an entry
C15_Witness ==
    /\ Len(auditLogs) = 2
    /\ Len(vaultMembers) = 2
    /\ sourceSeq = 1
    /\ sources = <<>>
    /\ \E r \in Reqs : reqs[r].route = POST_SOURCES /\ reqs[r].status = 500

\* ---------------------------------------------------------------------- C16
\* C16: no two users share an email, and a registration with email,
\* name and a password of six or more characters is answered 201 or, when
\* the email belongs to a user, 409.
C16_RegisterOnce ==
    /\ \A i, j \in DOMAIN users : users[i].email = users[j].email => i = j
    /\ \A r \in Reqs :
          (/\ reqs[r].route = POST_REGISTER
           /\ reqs[r].pc = "done"
           /\ reqs[r].email # "" /\ reqs[r].password >= 6 /\ ~Falsy(reqs[r].name)) =>
              /\ reqs[r].status \in {201, 409}
              /\ reqs[r].status = 409 => FindUserByEmail(reqs[r].email) # 0

\* ---------------------------------------------------------------------- C17
\* C17: there is at most one membership row per vault and user, and an
\* add-member request of the vault's owner for a registered user is
\* answered 201 or, the user being a member, 409.
C17_OneMembership ==
    /\ \A i, j \in DOMAIN vaultMembers :
          (/\ vaultMembers[i].vaultId = vaultMembers[j].vaultId
           /\ vaultMembers[i].userId = vaultMembers[j].userId) => i = j
    /\ \A r \in Reqs :
          (reqs[r].route = POST_MEMBERS /\ reqs[r].pc = "done" /\ reqs[r].status # 403) =>
              /\ reqs[r].status \in {201, 409}
              /\ reqs[r].status = 409 => MembersOf(reqs[r].id, reqs[r].userToAdd) # <<>>

\* ---------------------------------------------------------------------- C18
\* the request is the vault's creator's, with a title and a note's content
\* or a file's or image's attachment
C18_OwnersPost(q) ==
    /\ q.route = POST_SOURCES
    /\ \E i \in DOMAIN vaults : vaults[i].id = q.id /\ TokenOf(q.hdr) = Jwt(vaults[i].ownerId)
    /\ q.title = <<"t">>
    /\ \/ q.type = "note" /\ q.content = <<"c">> /\ q.file = ""
       \/ q.type \in {"file", "image"} /\ q.file = "ok"

\* C18: a request of the vault's creator that adds a note with content or
\* a file or image with an allowed attachment is answered 201, and the
\* content returned for a file or image is a path under /uploads/.
C18_CreatorMayAdd ==
    \A r \in Reqs :
        (Quiet /\ Free(r) /\ reqs[r].pc = "done" /\ C18_OwnersPost(reqs[r])) =>
            /\ reqs[r].status = 201
            /\ reqs[r].body.success
            /\ reqs[r].type \in {"file", "image"} =>
                  LET content == reqs[r].body.data[1].content
                  IN Len(content) = 3 /\ content[1] = "/" /\ content[2] = "uploads/"

\* the creator of vault 1 has added an image to it
C18_Witness ==
    \E r \in Reqs :
        /\ reqs[r].pc = "done" /\ C18_OwnersPost(reqs[r])
        /\ reqs[r].type = "image"
        /\ reqs[r].status = 201
        /\ reqs[r].body.data[1].content \in uploadsDir

\* ---------------------------------------------------------------------- C19
\* C19: once a fetch of the client has been answered "Invalid or expired
\* token" and apiCall has handled the answer, the client is no longer
\* authenticated with the token the server rejected.
C19_RejectedTokenLogsOut ==
    \A r \in Reqs :
        (/\ reqs[r].pc = "done"
         /\ r \notin Held
         /\ reqs[r].body.error = "Invalid or expired token"
         /\ client.token # NoToken
         /\ TokenOf(reqs[r].hdr) = client.token) => ~client.isAuthenticated

\* ---------------------------------------------------------------------- C20
\* the fetches a step of the client has sent
C20_Sent == {[kind |-> c.kind, route |-> reqs'[c.r].route, id |-> reqs'[c.r].id] :
                c \in client'.calls \ client.calls}

\* C20: the poll interval is set exactly while the client is authenticated
\* and its socket is not connected, and its callback reads the vault
\* selected now; the interval fires only while it is set, and a firing
\* fetches the vault list and, if a vault is selected, that vault's sources,
\* and nothing else.
C20_PollingFallback ==
    /\ [](/\ client.poll.on <=> (client.isAuthenticated /\ ~client.isConnected)
          /\ client.poll.on => client.poll.vault = client.selectedVault
          /\ ~client.poll.on => client.poll.vault = 0)
    /\ [][client'.ticks # client.ticks =>
            /\ client.isAuthenticated /\ ~client.isConnected
            /\ C20_Sent =
                  {[kind |-> "vaults", route |-> GET_VAULTS, id |-> 0]}
                  \cup IF client.selectedVault # 0
                       THEN {[kind |-> "sources", route |-> GET_SOURCES,
                              id |-> client.selectedVault]}
                       ELSE {}]_vars

\* the socket was connected and has dropped, a vault is selected, and the
\* interval has fired and fetched its sources
C20_Witness ==
    /\ client.isAuthenticated /\ ~client.isConnected /\ client.poll.on
    /\ client.selectedVault = 1
    /\ client.ticks > 0
    /\ \E s \in Sockets : sockets[s].user = 1 /\ ~sockets[s].open /\ client.socket = s
    /\ \E c \in client.calls : c.kind = "sources" /\ reqs[c.r].id = 1

\* ---------------------------------------------------------------------- C21
C21_Has(s) == s \notin {Undefined, Null, <<>>}
C21_Type(q) == IF q.type = "" THEN "url" ELSE q.type
\* the status the type rules give the body, and the content they store
C21_Status(q) ==
    IF ~C21_Has(q.title) \/ \A i \in DOMAIN q.title : q.title[i] = SP THEN 400
    ELSE IF C21_Type(q) \in {"url", "media"}
         THEN IF C21_Has(q.content) \/ C21_Has(q.url) THEN 201 ELSE 400
    ELSE IF C21_Type(q) = "note" THEN IF C21_Has(q.content) THEN 201 ELSE 400
    ELSE IF C21_Type(q) \in {"file", "image"} THEN IF q.file # "" THEN 201 ELSE 400
    ELSE 400
C21_Content(q) ==
    IF C21_Type(q) \in {"url", "media"} /\ ~C21_Has(q.content) THEN q.url ELSE q.content
\* the request is a POST of a source that requireVaultRole has let through
C21_Post(q) == q.route = POST_SOURCES /\ q.pc = "done" /\ q.passed

\* C21: a source POST that has passed the role check is answered by the
\* type rules: 400 for a blank title, for url/media without content and
\* url, for a note without content, for file/image without a file and for
\* any other type ("Invalid source type"), else 201; the row of a 201 has
\* the type (url if none was sent), the content (or the url) sent, and a
\* url that is the content for url/media and null otherwise; every row has
\* a non-null url exactly when its type is url or media; and a step that
\* answers 400 leaves sources and audit entries as they were.
C21_ResolveByType ==
    /\ [](/\ \A r \in Reqs :
                (Quiet /\ Free(r) /\ C21_Post(reqs[r])) =>
                    LET q == reqs[r]
                        row == FindSource(q.made)
                    IN /\ q.status = C21_Status(q)
                       /\ (q.status = 400 /\ C21_Has(q.title) /\ q.title # <<SP>>
                           /\ C21_Type(q) \notin {"url", "media", "note", "file", "image"})
                             => q.body.error = "Invalid source type"
                       /\ q.status = 201 =>
                             /\ row # <<>>
                             /\ row[1].type = C21_Type(q)
                             /\ C21_Type(q) \notin {"file", "image"} =>
                                   row[1].content = C21_Content(q)
                             /\ row[1].url = IF C21_Type(q) \in {"url", "media"}
                                             THEN row[1].content ELSE Null
          /\ \A i \in DOMAIN sources :
                sources[i].url # Null <=> sources[i].type \in {"url", "media"})
    /\ [][\A r \in Reqs :
            (Steps(r) /\ reqs'[r].pc = "done" /\ reqs'[r].status = 400) =>
                UNCHANGED <<sources, auditLogs, sourceSeq>>]_vars

\* a note has been stored with a null url
C21_Witness ==
    \E r \in Reqs :
        /\ C21_Post(reqs[r]) /\ reqs[r].status = 201 /\ reqs[r].type = "note"
        /\ FindSource(reqs[r].made) # <<>>
        /\ FindSource(reqs[r].made)[1].url = Null

\* ------------------------------------------------------------------------ C22
\* the stored source rows with id s, read off the table directly
C22_Rows(s) == {i \in DOMAIN sources : sources[i].id = s}
\* the vault_members rows of user u in vault v
C22_Roles(v, u) == {vaultMembers[i].role : i \in {j \in DOMAIN vaultMembers :
                        vaultMembers[j].vaultId = v /\ vaultMembers[j].userId = u}}
\* the answer the order of checks prescribes for user u asking for source s
C22_Status(u, s) ==
    IF C22_Rows(s) = {} THEN 404
    ELSE LET src == sources[CHOOSE i \in C22_Rows(s) : TRUE] IN
         IF C22_Roles(src.vaultId, u) = {} THEN 403
         ELSE IF src.type \notin {"file", "image"} THEN 400
         ELSE IF src.content # <<>> /\ Head(src.content) = "http" THEN 302
         ELSE IF src.content \notin uploadsDir THEN 404
         ELSE 200
\* the step of request r that answers an authenticated download without a
\* database failure
C22_Answers(r) ==
    /\ Steps(r)
    /\ reqs[r].route = GET_DOWNLOAD
    /\ reqs[r].pc \in {"dl_source", "dl_member"}
    /\ reqs'[r].pc = "done"
    /\ ~reqs'[r].dbFault
\* C22: GET /sources/:id/download answers 404 for an unknown source, else 403
\* for a requester without a membership row in the source's vault, else 400
\* for a type other than file or image, else 404 when the local file is
\* missing; the file (or a redirect) is sent only when every check passed,
\* and any role in the source's vault passes the membership check.
C22_DownloadOrder ==
    [][\A r \in Reqs :
          C22_Answers(r) =>
             /\ reqs'[r].status = C22_Status(reqs[r].user, reqs[r].id)
             /\ (reqs'[r].body.kind = "file") <=> (reqs'[r].status = 200)
             /\ (reqs'[r].body.kind = "redirect") <=> (reqs'[r].status = 302)
             /\ reqs'[r].status = 404 =>
                    reqs'[r].body.error = (IF C22_Rows(reqs[r].id) = {}
                                           THEN "Source not found"
                                           ELSE "File not found on server")
             /\ reqs'[r].status = 403 => reqs'[r].body.error = "Access denied"
             /\ reqs'[r].status = 400 => reqs'[r].body.error = "Source is not a file"]_vars
\* a VIEWER of the vault was sent the file
C22_Witness ==
    \E r \in Reqs :
        /\ reqs[r].route = GET_DOWNLOAD
        /\ reqs[r].pc = "done"
        /\ reqs[r].status = 200
        /\ reqs[r].body.kind = "file"
        /\ C22_Roles(1, reqs[r].user) = {"VIEWER"}

\* ------------------------------------------------------------------------ C23
\* the ids of the entries of a list, with their multiplicity
C23_Distinct(list) == \A i, j \in DOMAIN list : list[i].id = list[j].id => i = j
\* the step is the delivery of a source:added event to the client's listener
C23_Delivered ==
    /\ client.socket # 0
    /\ sockets[client.socket].inbox # <<>>
    /\ Head(sockets[client.socket].inbox).event = "source:added"
    /\ sockets'[client.socket].inbox = Tail(sockets[client.socket].inbox)
\* C23: the client's sources list never holds two entries with one id, and a
\* source:added event for a vault other than the selected one, or with no
\* vault selected, leaves the list as it was.
C23_SourcesDistinct ==
    /\ [](C23_Distinct(client.sources))
    /\ [][C23_Delivered
           /\ (client.selectedVaultRef = 0
               \/ Head(sockets[client.socket].inbox).arg.vaultId # client.selectedVaultRef)
           => client'.sources = client.sources]_vars
\* the listener is handed a source that the list, filled by a fetch, already shows
C23_Witness ==
    /\ client.socket # 0
    /\ sockets[client.socket].inbox # <<>>
    /\ LET ev == Head(sockets[client.socket].inbox) IN
          /\ ev.event = "source:added"
          /\ ev.arg.vaultId = client.selectedVaultRef
          /\ \E i \in DOMAIN client.sources : client.sources[i].id = ev.arg.id
\* the listener is handed a source of a vault that is no longer the selected one
C23_OtherVault ==
    /\ client.socket # 0
    /\ sockets[client.socket].inbox # <<>>
    /\ LET ev == Head(sockets[client.socket].inbox) IN
          /\ ev.event = "source:added"
          /\ ev.arg.vaultId # client.selectedVaultRef

\* ------------------------------------------------------------------------ C24
\* C24: the client's vaults list never holds two entries with one vault id,
\* however vault:created events interleave with fetchVaults responses.
C24_VaultsDistinct ==
    \A i, j \in DOMAIN client.vaults :
        client.vaults[i].id = client.vaults[j].id => i = j

\* ------------------------------------------------------------------------ C25
\* C25: once no request of the client is in flight, every entry of its
\* sources list belongs to the selected vault: the answer to a fetchSources
\* for the vault selected before does not replace the list of the one
\* selected now.
C25_SourcesOfSelected ==
    (client.calls = {} /\ client.selectedVault # 0) =>
        \A i \in DOMAIN client.sources : client.sources[i].vaultId = client.selectedVault

\* C25, for the MVP client: the same promise about the sources list of App.jsx
C25_AppSourcesOfSelected ==
    (app.calls = {} /\ app.selectedVault # 0) =>
        \A i \in DOMAIN app.sources : app.sources[i].vaultId = app.selectedVault

\* ------------------------------------------------------------------------ C26
\* the ids of a list are 1, 2, ... in the order of the list, and the counter
\* is the next one
C26_Counted(list, counter) ==
    /\ \A i \in DOMAIN list : list[i].id = i
    /\ counter = Len(list) + 1
\* the stored vault with id v, read off the list directly
C26_Stored(v) == \E i \in DOMAIN mvpVaults : mvpVaults[i].id = v
\* the ids this step consumed
C26_Consumed == (vaultIdCounter' - vaultIdCounter) + (sourceIdCounter' - sourceIdCounter)
\* the status the order of checks prescribes for a POST /vaults/:id/sources
C26_Status(req) ==
    IF ~C26_Stored(req.id) THEN 404
    ELSE IF NoText(req.title) \/ req.title = <<>> \/ req.title = Null THEN 400
    ELSE IF NoText(req.url) \/ req.url = <<>> \/ req.url = Null THEN 400
    ELSE 201
C26_Error(req) ==
    IF ~C26_Stored(req.id) THEN "Vault not found"
    ELSE IF NoText(req.title) \/ req.title = <<>> \/ req.title = Null
    THEN "Source title is required"
    ELSE "Source URL is required"
\* C26: in the in-memory server vault ids and source ids are each 1, 2, ...
\* in order of creation, one id is consumed by a 201 and none by a 400 or
\* 404, every source's vaultId is a stored vault's id, and POST
\* /vaults/:id/sources answers 404 for an unknown vault before 400 for the
\* title before 400 for the url, a rejection changing neither list nor counter.
C26_MvpIds ==
    /\ [](/\ C26_Counted(mvpVaults, vaultIdCounter)
          /\ C26_Counted(mvpSources, sourceIdCounter)
          /\ \A i \in DOMAIN mvpSources : C26_Stored(mvpSources[i].vaultId))
    /\ [][mvpRes' # mvpRes =>
            /\ C26_Consumed = (IF mvpRes'.status = 201 THEN 1 ELSE 0)
            /\ mvpRes'.status \in {400, 404} =>
                  UNCHANGED <<mvpVaults, mvpSources, vaultIdCounter, sourceIdCounter>>
            /\ mvpRes'.req.route = POST_SOURCES =>
                  /\ mvpRes'.status = C26_Status(mvpRes'.req)
                  /\ mvpRes'.status # 201 => mvpRes'.body.error = C26_Error(mvpRes'.req)]_vars
\* with two vaults and two sources stored, a request with a title and no url
\* for a stored vault has just been rejected
C26_Witness ==
    /\ Len(mvpVaults) = 2
    /\ Len(mvpSources) = 2
    /\ mvpSources[2].vaultId = 2
    /\ mvpRes.status = 400
    /\ mvpRes.req.route = POST_SOURCES
    /\ mvpRes.body.error = "Source URL is required"
    /\ C26_Stored(mvpRes.req.id)

====
